---------------------------- MODULE Spec2Model ----------------------------
(***************************************************************************)
(* A model of the NitiVista services.                                      *)
(*                                                                         *)
(*   - the WhatsApp delivery client (services/voice-system/                *)
(*     whatsapp_client.py): rate limiting and message history;             *)
(*   - the policy engine's HTTP endpoints (services/policy-engine/         *)
(*     main.py): upload, background processing, status, delete;            *)
(*   - the RAG system (FieldProjectRAG model/Codes/rag_model.py):          *)
(*     chunking, the document collection and question answering.           *)
(*                                                                         *)
(* Each component has its own specification over the shared variables; a   *)
(* specification leaves the other components' variables unchanged.         *)
(* Python strings are TLA+ strings; s[i:j] is SubSeq(s, i+1, j).           *)
(***************************************************************************)
EXTENDS Integers, Sequences, FiniteSets, Bags, TLC

VARIABLES
    \* ---- WhatsAppClient (whatsapp_client.py)
    today,                  \* the calendar date datetime.now().date() returns
    last_reset_date,        \* self.last_reset_date
    messages_sent_today,    \* self.messages_sent_today
    message_history,        \* self.message_history: phone -> list of records
    sends,                  \* per coroutine: where its send_text/send_voice is
    template_calls,         \* per coroutine: the arguments of its send_template, <<>> in none
    \* ---- policy engine (policy-engine/main.py)
    now,                    \* datetime.now(), in ticks of 1/TicksPerSecond s
    hash_salt,              \* this process's hash() of each file name
    upload_files,           \* uploads/: path -> the upload that wrote it
    status_files,           \* processing_status/: policy_id -> status record
    result_files,           \* processed_policies/: policy_id -> result record
    tasks,                  \* the uploads so far and their background tasks
    response,               \* the last HTTP response sent
    \* ---- PolicyRAGSystem._split_text_into_chunks (rag_model.py)
    text,                   \* the argument text
    chunk_size,             \* the argument chunk_size
    chunk_overlap,          \* the argument chunk_overlap
    start,                  \* the local start
    chunks,                 \* the local chunks
    split_pc,               \* "idle", "while" (at the loop head), "body" or "done"
    \* ---- PolicyRAGSystem (rag_model.py)
    collection,             \* self.collection: the chunks ChromaDB holds
    rag_result,             \* the last call of the RAG system and its outcome
    \* ---- HTTP endpoints of rag-qa/main.py and voice-system/main.py
    quality_metrics,        \* voice_generator.quality_metrics
    api_response,           \* the last request of these endpoints and its answer
    \* ---- VectorStore (policy-engine/vector_store.py)
    vs_embeddings,          \* self.embeddings: policy_id -> list, in key order
    vs_chunks,              \* self.chunks: chunk_id -> chunk
    vs_index,               \* self.index: policy_id -> section -> list
    vs_disk,                \* the files of storage_dir
    vs_result,              \* the last call of the store and what it returned
    \* ---- RAGChatInterface (rag_model.py)
    conversation_history,   \* self.conversation_history: user_id -> conversation
    chat_response,          \* the last call of the chat interface and its value
    \* ---- validation scripts (validation/*.py)
    val_pc,                 \* where run_all_validations.main and its script are
    perf_results,           \* PerformanceValidator's self.results
    script_runs,            \* per script run: validate_all's value, return code
    validation_results,     \* validation_results['validations'] of main
    all_passed,             \* main's local all_passed
    exit_code,              \* what main returned, None before
    \* ---- TextSimplifier._break_long_sentences (text_simplifier.py)
    simplifier_text,        \* the argument text, as its tokens
    target_grade,           \* the argument target_grade
    simplified_sentences,   \* the local simplified_sentences, None before
    \* ---- PolicyProcessor.extract_exclusions (policy_processor.py)
    document,               \* the argument text, as its lines
    exclusions,             \* <<the returned list as the bag of its entries>>, <<>> before
    \* ---- LayoutClassifier.classify_sections (layout_classifier.py)
    ocr_text,               \* ocr_result["text"], as its lines
    policy_type,            \* the local policy_type, None before
    classified_sections     \* the returned list, None before

waVars ==
    <<today, last_reset_date, messages_sent_today, message_history, sends, template_calls>>
peVars == <<now, hash_salt, upload_files, status_files, result_files, tasks, response>>

ckVars == <<text, chunk_size, chunk_overlap, start, chunks, split_pc>>
dbVars == <<collection, rag_result>>
ragVars == <<ckVars, dbVars>>

coreVars == <<waVars, peVars, ragVars>>
apiVars == <<quality_metrics, api_response>>
vsVars == <<vs_embeddings, vs_chunks, vs_index, vs_disk, vs_result>>
chatVars == <<conversation_history, chat_response>>
valVars == <<val_pc, perf_results, script_runs, validation_results, all_passed, exit_code>>
tsVars == <<simplifier_text, target_grade, simplified_sentences>>
exVars == <<document, exclusions>>
lcVars == <<ocr_text, policy_type, classified_sections>>
textVars == <<tsVars, exVars, lcVars>>
auxVars == <<chatVars, valVars, textVars>>
extVars == <<apiVars, vsVars, auxVars>>

vars == <<coreVars, extVars>>

Min(a, b) == IF a < b THEN a ELSE b
Max(a, b) == IF a > b THEN a ELSE b

(***************************************************************************)
(*                       policy engine: main.py                            *)
(***************************************************************************)

\* The clock has TicksPerSecond ticks to the second and stops at MaxTick.
TicksPerSecond == 2
MaxTick == 2
\* The number of POST /upload-policy requests.
MaxUploads == 2

\* hash(file.filename) % 10000
HashModulus == 10000

UpperCase == "ABCDEFGHIJKLMNOPQRSTUVWXYZ"
LowerCase == "abcdefghijklmnopqrstuvwxyz"

\* str.lower() of one character
LowerChar(c) ==
    IF \E i \in 1..Len(UpperCase) : SubSeq(UpperCase, i, i) = c
    THEN LET i == CHOOSE k \in 1..Len(UpperCase) : SubSeq(UpperCase, k, k) = c
         IN  SubSeq(LowerCase, i, i)
    ELSE c

\* str.lower(): each character's lower case, put together by halves
RECURSIVE Lower(_)
Lower(s) ==
    IF Len(s) = 0 THEN ""
    ELSE IF Len(s) = 1 THEN LowerChar(s)
         ELSE Lower(SubSeq(s, 1, Len(s) \div 2))
                 \o Lower(SubSeq(s, Len(s) \div 2 + 1, Len(s)))

\* str.endswith(suffix)
EndsWith(s, suffix) ==
    /\ Len(s) >= Len(suffix)
    /\ SubSeq(s, Len(s) - Len(suffix) + 1, Len(s)) = suffix

\* suffix anywhere in s
Contains(s, suffix) ==
    \E i \in 1..Len(s) : SubSeq(s, i, Min(Len(s), i + Len(suffix) - 1)) = suffix

SupportedSuffixes == {".pdf", ".png", ".jpg", ".jpeg"}

\* SupportedFile with "in" for endswith
SuffixAnywhere(filename) ==
    \E suffix \in SupportedSuffixes : Contains(Lower(filename), suffix)

\* file.filename.lower().endswith(('.pdf', '.png', '.jpg', '.jpeg'))
SupportedFile(filename) ==
    \E suffix \in SupportedSuffixes : EndsWith(Lower(filename), suffix)

\* The file names of the uploads.
FileNames ==
    {"policy.pdf", "Scan.JPEG", "notes.txt", "policy.pdf.bak"}

\* The file names upload_policy accepts.
SupportedUploads == {f \in FileNames : SupportedFile(f)}

\* hash() of a str is salted per process: the tables a process may have. In
\* the second one two file names agree modulo 10000.
HashTables ==
    { [f \in FileNames |->
        CASE f = "policy.pdf" -> 8734218
          [] f = "Scan.JPEG" -> -402217783
          [] OTHER -> 5],
      [f \in FileNames |->
        CASE f = "policy.pdf" -> 8734218
          [] f = "Scan.JPEG" -> -5782
          [] OTHER -> 5] }

\* f"POL_{datetime.now().strftime('%Y%m%d_%H%M%S')}_{hash(file.filename) % 10000:04d}":
\* the second of the clock and the hash modulo 10000, both printed in full.
PolicyId(filename) ==
    <<"POL", now \div TicksPerSecond, hash_salt[filename] % HashModulus>>

\* os.path.join(upload_dir, f"{policy_id}_{file.filename}")
FilePath(policy_id, filename) == <<policy_id, filename>>

\* A policy ID nothing was uploaded under.
UnknownId == <<"POL", 0, 0>>

\* The IDs a client may ask for.
KnownIds == {tasks[i].policy_id : i \in DOMAIN tasks} \cup {UnknownId}

InitEngine ==
    /\ now = 0
    /\ hash_salt \in HashTables
    /\ upload_files = <<>>
    /\ status_files = <<>>
    /\ result_files = <<>>
    /\ tasks = <<>>
    /\ response = [op |-> "none"]

\* The engine when only the other services run.
InitEngineIdle ==
    /\ now = 0
    /\ hash_salt = CHOOSE h \in HashTables : TRUE
    /\ upload_files = <<>>
    /\ status_files = <<>>
    /\ result_files = <<>>
    /\ tasks = <<>>
    /\ response = [op |-> "none"]

\* f with x mapped to v (a file written, a dict entry set)
Put(f, x, v) == [y \in DOMAIN f \cup {x} |-> IF y = x THEN v ELSE f[y]]

\* f without the keys in xs (files removed)
Remove(f, xs) == [y \in DOMAIN f \ xs |-> f[y]]

\* upload_policy up to await file.read(): the 400, or the ID and open(.., "wb")
UploadBegin(filename) ==
    /\ Len(tasks) < MaxUploads
    /\ IF filename \notin SupportedUploads
       THEN /\ response' = [op |-> "upload", filename |-> filename, code |-> 400]
            /\ UNCHANGED <<upload_files, tasks>>
       ELSE LET policy_id == PolicyId(filename)
            IN  /\ upload_files' = Put(upload_files, FilePath(policy_id, filename), 0)
                /\ tasks' = Append(tasks, [policy_id |-> policy_id,
                                           filename |-> filename,
                                           state |-> "uploading"])
                /\ UNCHANGED response
    /\ UNCHANGED <<now, hash_salt, status_files, result_files>>
    /\ UNCHANGED <<waVars, ragVars, extVars>>

\* upload_policy after the read: buffer.write, add_task, the "processing" answer
UploadEnd(i) ==
    /\ i \in DOMAIN tasks
    /\ tasks[i].state = "uploading"
    /\ LET path == FilePath(tasks[i].policy_id, tasks[i].filename)
       IN  upload_files' = IF path \in DOMAIN upload_files
                           THEN Put(upload_files, path, i)
                           ELSE upload_files
    /\ tasks' = [tasks EXCEPT ![i].state = "pending"]
    /\ response' = [op |-> "upload", filename |-> tasks[i].filename, code |-> 200,
                    status |-> "processing", policy_id |-> tasks[i].policy_id]
    /\ UNCHANGED <<now, hash_salt, status_files, result_files>>
    /\ UNCHANGED <<waVars, ragVars, extVars>>

\* store_processing_result without its first json.dump: the status file only
StoreStatusOnly(i, vector_embeddings) ==
    /\ status_files' = Put(status_files, tasks[i].policy_id,
            [policy_id |-> tasks[i].policy_id, status |-> "completed"])
    /\ UNCHANGED result_files

\* store_processing_result: the result file, then the status file
StoreProcessingResult(i, vector_embeddings) ==
    LET policy_id == tasks[i].policy_id
    IN  /\ result_files' = Put(result_files, policy_id,
                [policy_id |-> policy_id,
                 file_path |-> FilePath(policy_id, tasks[i].filename),
                 vector_embeddings |-> vector_embeddings])
        /\ status_files' = Put(status_files, policy_id,
                [policy_id |-> policy_id, status |-> "completed"])

\* store_error_result: the status file only
StoreErrorResult(i) ==
    /\ status_files' = Put(status_files, tasks[i].policy_id,
            [policy_id |-> tasks[i].policy_id, status |-> "failed"])
    /\ UNCHANGED result_files

\* How process_policy ends: the first of its steps to fail, in the order it
\* runs them.  extract_text, classify_sections and extract_structured_data
\* fail by raising; create_embeddings fails by returning False.
RaisingSteps == {"ocr raised", "classification raised", "extraction raised"}
PipelineOutcomes == RaisingSteps \cup {"not embedded", "embedded"}

\* The upload of task i is no longer in uploads/: a DELETE removed it, and
\* answered 'Policy deleted successfully'.
UploadGone(i) ==
    FilePath(tasks[i].policy_id, tasks[i].filename) \notin DOMAIN upload_files

\* process_policy_async with the pipeline ending in outcome; it never
\* suspends.  extract_text raises when the file is gone.
ProcessPolicyWith(i, outcome) ==
    /\ i \in DOMAIN tasks
    /\ tasks[i].state = "pending"
    /\ UploadGone(i) => outcome = "ocr raised"
    /\ IF outcome \in RaisingSteps
       THEN StoreErrorResult(i)
       ELSE StoreProcessingResult(i, outcome = "embedded")
    /\ tasks' = [tasks EXCEPT ![i].state = "done"]
    /\ UNCHANGED <<now, hash_salt, upload_files, response>>
    /\ UNCHANGED <<waVars, ragVars, extVars>>

\* process_policy_async
ProcessPolicyAsync(i) == \E outcome \in PipelineOutcomes : ProcessPolicyWith(i, outcome)

\* GET /policy-status/{policy_id}
GetPolicyStatus(policy_id) ==
    /\ response' = IF policy_id \in DOMAIN status_files
                   THEN [op |-> "status", policy_id |-> policy_id, code |-> 200,
                         status |-> status_files[policy_id].status]
                   ELSE [op |-> "status", policy_id |-> policy_id, code |-> 404]
    /\ UNCHANGED <<now, hash_salt, upload_files, status_files, result_files, tasks>>
    /\ UNCHANGED <<waVars, ragVars, extVars>>

\* GET /policy/{policy_id}
GetPolicy(policy_id) ==
    /\ response' = IF policy_id \in DOMAIN result_files
                   THEN [op |-> "policy", policy_id |-> policy_id, code |-> 200,
                         vector_embeddings |-> result_files[policy_id].vector_embeddings]
                   ELSE [op |-> "policy", policy_id |-> policy_id, code |-> 404]
    /\ UNCHANGED <<now, hash_salt, upload_files, status_files, result_files, tasks>>
    /\ UNCHANGED <<waVars, ragVars, extVars>>

\* DELETE /policy/{policy_id}: the result, the status and uploads/{policy_id}_*
DeletePolicy(policy_id) ==
    LET uploaded == {path \in DOMAIN upload_files : path[1] = policy_id}
        deleted == \/ policy_id \in DOMAIN result_files
                   \/ policy_id \in DOMAIN status_files
                   \/ uploaded # {}
    IN  /\ result_files' = Remove(result_files, {policy_id})
        /\ status_files' = Remove(status_files, {policy_id})
        /\ upload_files' = Remove(upload_files, uploaded)
        /\ response' = [op |-> "delete", policy_id |-> policy_id,
                        code |-> IF deleted THEN 200 ELSE 404]
        /\ UNCHANGED <<now, hash_salt, tasks>>
        /\ UNCHANGED <<waVars, ragVars, extVars>>

\* time passes
Tick ==
    /\ now < MaxTick
    /\ now' = now + 1
    /\ UNCHANGED <<hash_salt, upload_files, status_files, result_files, tasks, response>>
    /\ UNCHANGED <<waVars, ragVars, extVars>>

NextEngine ==
    \/ \E filename \in FileNames : UploadBegin(filename)
    \/ \E i \in DOMAIN tasks : UploadEnd(i)
    \/ \E i \in DOMAIN tasks : ProcessPolicyAsync(i)
    \/ \E policy_id \in KnownIds : GetPolicyStatus(policy_id)
    \/ \E policy_id \in KnownIds : GetPolicy(policy_id)
    \/ \E policy_id \in KnownIds : DeletePolicy(policy_id)
    \/ Tick

(***************************************************************************)
(*                             WhatsAppClient                              *)
(***************************************************************************)

\* self.rate_limit = 950
rate_limit == 950
\* _record_message keeps the last 100 records of a number
HistoryKeep == 100
\* _record_message keeps the first 100 characters of the content
ContentKeep == 100

\* The last day of the modelled calendar (days are 1..MaxDay).
MaxDay == 2

\* The coroutines that may be inside a send at the same time: the background
\* tasks of /generate-voice and the webhook handler share one client.
Senders == {"s1", "s2"}

PhoneText == "+9198001"
PhoneVoice == "+9198002"

\* A simplified text /generate-voice hands to send_text.
SimplifiedText == "Your policy pays for hospital stays."

\* message None: send_text fails on message[:50]
None == "<None>"

AudioFile == "audio/r1.mp3"
MissingAudioFile == "audio/r2.mp3"
\* os.path.exists
AudioFilesOnDisk == {AudioFile}

\* content[:100] + "..." if len(content) > 100 else content
RecordedContent(content) ==
    IF Len(content) > ContentKeep
    THEN SubSeq(content, 1, ContentKeep) \o "..."
    ELSE content

\* message_record of _record_message. The timestamp is left out: nothing
\* reads it.
MessageRecord(phone_number, message_type, content) ==
    [phone_number |-> phone_number,
     message_type |-> message_type,
     content |-> RecordedContent(content),
     status |-> "sent"]

\* self.message_history.get(phone_number, [])
HistoryOf(history, phone_number) ==
    IF phone_number \in DOMAIN history THEN history[phone_number] ELSE <<>>

\* history[-100:]
LastRecords(list) ==
    IF Len(list) > HistoryKeep
    THEN SubSeq(list, Len(list) - HistoryKeep + 1, Len(list))
    ELSE list

\* RecordMessage without the cut to the last 100 records
RecordMessageUncut(history, phone_number, message_type, content) ==
    LET appended == Append(HistoryOf(history, phone_number),
                           MessageRecord(phone_number, message_type, content))
    IN  [p \in DOMAIN history \cup {phone_number} |->
            IF p = phone_number THEN appended ELSE history[p]]

\* _record_message: append, then keep the last 100 of that number
RecordMessage(history, phone_number, message_type, content) ==
    LET appended == Append(HistoryOf(history, phone_number),
                           MessageRecord(phone_number, message_type, content))
    IN  [p \in DOMAIN history \cup {phone_number} |->
            IF p = phone_number THEN LastRecords(appended) ELSE history[p]]

\* CounterAfterCheck without the daily reset
CounterNeverReset == messages_sent_today

\* _check_rate_limit: the counter and the reset date after the check
CounterAfterCheck ==
    IF today # last_reset_date THEN 0 ELSE messages_sent_today

ResetDateAfterCheck ==
    IF today # last_reset_date THEN today ELSE last_reset_date

\* _check_rate_limit's return value
CheckRateLimit == CounterAfterCheck < rate_limit

\* The histories logs/whatsapp_history.json may hold when the client is
\* constructed (_load_message_history): none, or the records of earlier runs.
LoadedHistories ==
    { [p \in {PhoneText, PhoneVoice} |->
        IF p = PhoneText
        THEN [i \in 1..k |-> MessageRecord(PhoneText, "text", SimplifiedText)]
        ELSE [i \in 1..HistoryKeep |-> MessageRecord(PhoneVoice, "voice", AudioFile)]]
      : k \in {HistoryKeep - 1} }

Idle == [pc |-> "idle"]
\* why: "sent", "limit" (the warning "Rate limit exceeded") or "failed" (the
\* errors "Audio file not found" and "Failed to send text message")
Returned(value, why) == [pc |-> "returned", value |-> value, why |-> why]
Sleeping(kind, phone_number, content) ==
    [pc |-> "sleep", kind |-> kind, phone_number |-> phone_number, content |-> content]

\* The client when only the other services run (no history on disk).
InitClientIdle ==
    /\ today = 1
    /\ last_reset_date = 1
    /\ messages_sent_today = 0
    /\ message_history = <<>>
    /\ sends = [s \in Senders |-> Idle]
    /\ template_calls = [s \in Senders |-> <<>>]

\* The client as __init__ leaves it.
InitClient ==
    /\ today = 1
    /\ last_reset_date = 1
    /\ messages_sent_today = 0
    /\ message_history \in LoadedHistories
    /\ sends = [s \in Senders |-> Idle]
    /\ template_calls = [s \in Senders |-> <<>>]

\* send_text up to its await asyncio.sleep(0.5), called by the client's user
\* or by send_template
SendText(s, phone_number, message) ==
    /\ sends[s].pc # "sleep"
    /\ messages_sent_today' = CounterAfterCheck
    /\ last_reset_date' = ResetDateAfterCheck
    /\ sends' = [sends EXCEPT ![s] =
            IF ~CheckRateLimit THEN Returned(FALSE, "limit")
            ELSE IF message = None THEN Returned(FALSE, "failed")
            ELSE Sleeping("text", phone_number, message)]
    /\ UNCHANGED <<today, message_history>>
    /\ UNCHANGED <<peVars, ragVars, extVars>>

\* send_text up to its await asyncio.sleep(0.5)
SendTextBegin(s, phone_number, message) ==
    /\ SendText(s, phone_number, message)
    /\ template_calls' = [template_calls EXCEPT ![s] = <<>>]

\* send_voice up to its await asyncio.sleep(1.0)
SendVoiceBegin(s, phone_number, audio_file_path) ==
    /\ sends[s].pc # "sleep"
    /\ messages_sent_today' = CounterAfterCheck
    /\ last_reset_date' = ResetDateAfterCheck
    /\ sends' = [sends EXCEPT ![s] =
            IF ~CheckRateLimit THEN Returned(FALSE, "limit")
            ELSE IF audio_file_path \notin AudioFilesOnDisk
                 THEN Returned(FALSE, "failed")
            ELSE Sleeping("voice", phone_number, audio_file_path)]
    /\ template_calls' = [template_calls EXCEPT ![s] = <<>>]
    /\ UNCHANGED <<today, message_history>>
    /\ UNCHANGED <<peVars, ragVars, extVars>>

\* send_text and send_voice after the sleep: record, count, return True
SendEnd(s) ==
    /\ sends[s].pc = "sleep"
    /\ message_history' = RecordMessage(message_history, sends[s].phone_number,
                                        sends[s].kind, sends[s].content)
    /\ messages_sent_today' = messages_sent_today + 1
    /\ sends' = [sends EXCEPT ![s] = Returned(TRUE, "sent")]
    /\ UNCHANGED <<today, last_reset_date, template_calls>>
    /\ UNCHANGED <<peVars, ragVars, extVars>>

\* midnight passes
NextDay ==
    /\ today < MaxDay
    /\ today' = today + 1
    /\ UNCHANGED <<last_reset_date, messages_sent_today, message_history, sends,
                   template_calls>>
    /\ UNCHANGED <<peVars, ragVars, extVars>>

NextWhatsApp ==
    \/ \E s \in Senders, m \in {SimplifiedText, None} : SendTextBegin(s, PhoneText, m)
    \/ \E s \in Senders, f \in {AudioFile, MissingAudioFile} : SendVoiceBegin(s, PhoneVoice, f)
    \/ \E s \in Senders : SendEnd(s)
    \/ NextDay

\* self.templates. The characters outside ASCII are written "?", so every
\* text has its length.
Templates ==
    [welcome |->
       [en |->
          "Welcome to NitiVista! I can help you understand your insurance policy in simple language. What would you like to know?",
        hi |->
          "?????????? ??? ???? ?????? ??! ??? ???? ???? ?????? ?? ??? ???? ??? ?????? ??? ??? ?? ???? ???? ?? ???? ????? ????????",
        mr |->
          "??????????????? ????? ?????? ???! ?? ????? ???? ?????? ?????? ????? ?????????? ??? ??? ????. ???????? ??? ?????? ??? ????"],
     help |->
       [en |->
          "I can help you with:\n? Understanding policy terms\n? Finding exclusions\n? Claim procedures\n? Premium details\n\nJust ask your question!",
        hi |->
          "??? ???? ??? ?? ???? ???:\n? ?????? ?????? ?? ????? ???\n? ????? ????? ???\n? ???? ????????? ???\n? ???????? ????? ???\n\n?? ???? ?????? ?????!",
        mr |->
          "?? ??????? ?????? ??? ????:\n? ?????? ???? ????????\n? ????? ????????\n? ???? ??????????\n? ???????? ???????\n\n???? ????? ?????? ??????!"],
     processing |->
       [en |->
          "I'm processing your question about insurance. I'll send you a voice explanation shortly!",
        hi |->
          "??? ???? ???? ?????? ?????? ?? ??????? ?? ??? ???? ??? ????? ?? ???? ???? ?????????? ???????!",
        mr |->
          "?? ??????? ???? ??????? ????????? ????????? ??? ???. ?? ????? ???????? ?????? ?????????? ??????!"]]

\* The most template messages in the history of PhoneTemplate.
MaxTemplateSends == 2

PhoneTemplate == "+9198003"

\* The template keys and languages of the calls: "goodbye" is no template,
\* and no template has "ta".
TemplateKeys == {"welcome", "help", "goodbye"}
TemplateLanguages == {"en", "hi", "ta"}

\* LanguageUsed with Hindi where the language is not available
LanguageOrHindi(template_key, language) ==
    IF language \notin DOMAIN Templates[template_key] THEN "hi" ELSE language

\* language after "if language not in self.templates[template_key]"
LanguageUsed(template_key, language) ==
    IF language \notin DOMAIN Templates[template_key] THEN "en" ELSE language

\* send_template up to the await in send_text
SendTemplate(s, phone_number, template_key, language) ==
    /\ sends[s].pc # "sleep"
    /\ template_calls' = [template_calls EXCEPT ![s] = <<template_key, language>>]
    /\ IF template_key \notin DOMAIN Templates
       THEN /\ sends' = [sends EXCEPT ![s] = Returned(FALSE, "failed")]
            /\ UNCHANGED <<today, last_reset_date, messages_sent_today, message_history>>
            /\ UNCHANGED <<peVars, ragVars, extVars>>
       ELSE SendText(s, phone_number,
                     Templates[template_key][LanguageUsed(template_key, language)])

\* The client after its day's messages but one, all of them sent: both
\* histories are full.
InitClientBusy ==
    /\ today = 1
    /\ last_reset_date = 1
    /\ messages_sent_today = rate_limit - 1
    /\ message_history =
          [p \in {PhoneText, PhoneVoice} |->
              IF p = PhoneText
              THEN [i \in 1..HistoryKeep |-> MessageRecord(PhoneText, "text", SimplifiedText)]
              ELSE [i \in 1..HistoryKeep |-> MessageRecord(PhoneVoice, "voice", AudioFile)]]
    /\ sends = [s \in Senders |-> Returned(TRUE, "sent")]
    /\ template_calls = [s \in Senders |-> <<>>]

NextTemplates ==
    \/ \E s \in Senders, template_key \in TemplateKeys, language \in TemplateLanguages :
          /\ Len(HistoryOf(message_history, PhoneTemplate)) < MaxTemplateSends
          /\ SendTemplate(s, PhoneTemplate, template_key, language)
    \/ \E s \in Senders : SendEnd(s)
    \/ NextDay

(***************************************************************************)
(*          PolicyRAGSystem._split_text_into_chunks: rag_model.py          *)
(***************************************************************************)

\* The texts are all strings over Alphabet of length up to MaxTextLen, and
\* LongTexts, in which a sentence ends in the last 20% of the first chunk of
\* SentenceSize characters.
MaxTextLen == 2
SentenceSize == 11
\* len(chunks) > 1000
MaxChunks == 1000

Alphabet == {"a", " ", "."}
Whitespace == {" "}

RECURSIVE TextsOfLen(_)
TextsOfLen(n) ==
    IF n = 0 THEN {""}
    ELSE {t \o c : t \in TextsOfLen(n - 1), c \in Alphabet}

LongTexts == {"aaaaaaaaa.aaaaaaaa"}

ChunkTexts == UNION {TextsOfLen(n) : n \in 0..MaxTextLen} \cup LongTexts
ChunkSizes == {0, 1, 2, SentenceSize}
ChunkOverlaps == {0, 1, SentenceSize - 1}

\* The index Python's slicing makes of i for a string of length n.
SliceIndex(i, n) == IF i < 0 THEN Max(i + n, 0) ELSE Min(i, n)

\* s[i:j]
Slice(s, i, j) ==
    LET a == SliceIndex(i, Len(s))
        b == SliceIndex(j, Len(s))
    IN  IF a < b THEN SubSeq(s, a + 1, b) ELSE ""

\* s.rfind(c, i, j): the highest index in s[i:j] that holds c, or -1
RFind(s, c, i, j) ==
    LET a == SliceIndex(i, Len(s))
        b == SliceIndex(j, Len(s))
        found == {p \in a..(b - 1) : SubSeq(s, p + 1, p + 1) = c}
    IN  IF found = {} THEN -1
        ELSE CHOOSE p \in found : \A q \in found : q <= p

\* s.strip()
Strip(s) ==
    LET kept == {p \in 1..Len(s) : SubSeq(s, p, p) \notin Whitespace}
    IN  IF kept = {} THEN ""
        ELSE SubSeq(s, CHOOSE p \in kept : \A q \in kept : p <= q,
                       CHOOSE p \in kept : \A q \in kept : q <= p)

\* The end of the chunk that starts at st: st + size, or just after the last
\* '.' of the chunk where that is in the chunk's last 20%.  The test
\* sentence_end > start + chunk_size * 0.8 is taken times five.
ChunkEnd(t, size, st) ==
    LET end == st + size
        sentence_end == RFind(t, ".", st, end)
    IN  IF end < Len(t) /\ 5 * sentence_end > 5 * st + 4 * size
        THEN sentence_end + 1
        ELSE end

\* chunks after the iteration that starts at st
ChunksAfter(t, size, st, cs) ==
    LET chunk == Strip(Slice(t, st, ChunkEnd(t, size, st)))
    IN  IF chunk # "" THEN Append(cs, chunk) ELSE cs

\* start after the iteration that starts at st
StartAfter(t, size, overlap, st) == ChunkEnd(t, size, st) - overlap

\* The safety check that ends the loop.
Breaks(t, st, cs) == st >= Len(t) \/ Len(cs) > MaxChunks

InitSplit ==
    /\ text \in ChunkTexts
    /\ chunk_size \in ChunkSizes
    /\ chunk_overlap \in ChunkOverlaps
    /\ start = 0
    /\ chunks = <<>>
    /\ split_pc = "while"

InitSplitIdle ==
    /\ text = ""
    /\ chunk_size = 0
    /\ chunk_overlap = 0
    /\ start = 0
    /\ chunks = <<>>
    /\ split_pc = "idle"

\* while start < len(text): into the body, or past the loop to the return.
SplitWhile ==
    /\ split_pc = "while"
    /\ split_pc' = IF start < Len(text) THEN "body" ELSE "done"
    /\ UNCHANGED <<text, chunk_size, chunk_overlap, start, chunks>>
    /\ UNCHANGED <<waVars, peVars, dbVars, extVars>>

\* The body of the loop, its break included.
SplitBody ==
    /\ split_pc = "body"
    /\ chunks' = ChunksAfter(text, chunk_size, start, chunks)
    /\ start' = StartAfter(text, chunk_size, chunk_overlap, start)
    /\ split_pc' = IF Breaks(text, start', chunks') THEN "done" ELSE "while"
    /\ UNCHANGED <<text, chunk_size, chunk_overlap>>
    /\ UNCHANGED <<waVars, peVars, dbVars, extVars>>

NextSplit ==
    \/ SplitWhile
    \/ SplitBody

(***************************************************************************)
(*                    PolicyRAGSystem: rag_model.py                        *)
(***************************************************************************)

\* The policy documents, and the metadata test_rag_system passes.
PolicyTexts == {"Covers fire. No flood.", "Covers theft."}
TestMetadata == [insurer |-> "Star Health"]

\* chunk_size and chunk_overlap of add_policy_document: the defaults, and a
\* size that cuts the longer text in two.
DefaultChunking == <<512, 50>>
SmallChunking == <<16, 4>>
Chunkings == {DefaultChunking, SmallChunking}

\* chunk[:200] + "..."
ChunkTextKeep == 200

\* hashlib.md5(policy_text.encode()).hexdigest(): a string that differs for
\* different texts.
Md5(policy_text) == "md5:" \o policy_text

DocIds == {Md5(t) : t \in PolicyTexts}

\* _split_text_into_chunks run to its return (on arguments for which it
\* returns).
RECURSIVE SplitFrom(_, _, _, _, _)
SplitFrom(t, size, overlap, st, cs) ==
    IF ~(st < Len(t)) THEN cs
    ELSE LET cs2 == ChunksAfter(t, size, st, cs)
             st2 == StartAfter(t, size, overlap, st)
         IN  IF Breaks(t, st2, cs2) THEN cs2
             ELSE SplitFrom(t, size, overlap, st2, cs2)

SplitTextIntoChunks(t, size, overlap) == SplitFrom(t, size, overlap, 0, <<>>)

\* chunk_metadata: a copy of metadata updated with the chunk's own keys
ChunkMetadata(metadata, i, chunk, total) ==
    [chunk_id |-> i,
     chunk_text |-> IF Len(chunk) > ChunkTextKeep
                    THEN SubSeq(chunk, 1, ChunkTextKeep) \o "..."
                    ELSE chunk,
     total_chunks |-> total] @@ metadata

\* The entries add_policy_document hands to collection.add.
ChunkEntries(policy_text, metadata, chunking) ==
    LET cs == SplitTextIntoChunks(policy_text, chunking[1], chunking[2])
    IN  {[id |-> <<Md5(policy_text), i>>,
          document |-> cs[i + 1],
          metadata |-> ChunkMetadata(metadata, i, cs[i + 1], Len(cs))] :
            i \in 0..(Len(cs) - 1)}

IdsOf(entries) == {e.id : e \in entries}

\* collection.add: entries whose id the collection holds are not added.
CollectionAdd(entries) ==
    collection \cup {e \in entries : e.id \notin IdsOf(collection)}

\* where={"doc_id": policy_id}
Where(policy_id) ==
    {e \in collection :
        "doc_id" \in DOMAIN e.metadata /\ e.metadata["doc_id"] = policy_id}

\* The chunks of the document whose ID is doc_id.
ChunksOfDocument(doc_id) == {e \in collection : e.id[1] = doc_id}

InitRag ==
    /\ collection = {}
    /\ rag_result = [op |-> "none"]

\* add_policy_document.  collection.add raises (add_raises) only for an ID
\* the collection already holds; the exception is raised again.
AddPolicyDocument(policy_text, metadata, chunking, add_raises) ==
    LET entries == ChunkEntries(policy_text, metadata, chunking)
    IN  /\ add_raises => IdsOf(entries) \cap IdsOf(collection) # {}
        /\ collection' = IF add_raises THEN collection ELSE CollectionAdd(entries)
        /\ rag_result' = IF add_raises
                         THEN [op |-> "add_policy_document", raised |-> TRUE]
                         ELSE [op |-> "add_policy_document", raised |-> FALSE,
                               value |-> Md5(policy_text)]
        /\ UNCHANGED <<waVars, peVars, ckVars, extVars>>

\* The questions: a string, and None, on which question.lower() raises.
Questions == {"What does my policy cover?", None}
PolicyIdArgs == DocIds \cup {None}
TopKs == {1, 2}

\* Confidences in hundredths.  0.3 is the default confidence_threshold and
\* 0.2 the confidence of the fallback.
DefaultThreshold == 30
FallbackConfidence == 20
Thresholds == {DefaultThreshold, 0}
Scores == {0, 29, 30}

\* What self.qa_pipeline does with one context: it raises or returns a score.
QAOutcomes ==
    {[raised |-> TRUE, score |-> 0]} \cup
    {[raised |-> FALSE, score |-> s] : s \in Scores}

\* The sequences of n different elements of S.
Arrangements(S, n) ==
    {seq \in [1..n -> S] : \A i, j \in 1..n : seq[i] = seq[j] => i = j}

\* The results collection.query may give _retrieve_relevant_contexts: the
\* top_k nearest of the chunks the filter selects (fewer if there are
\* fewer), nearest first.  The distances are the embedding model's, so any
\* order can be the one.
RetrievableContexts(policy_id, top_k) ==
    LET selected == IF policy_id # None THEN Where(policy_id) ELSE collection
    IN  Arrangements(selected, Min(top_k, Cardinality(selected)))

\* A source that is a string, and one that is a chunk's metadata.
Literal(s) == [literal |-> s]
FromChunk(metadata) == [metadata |-> metadata]

NoInformation == [answer |-> "no information", confidence |-> 0, source |-> Literal("None")]
ErrorAnswer == [answer |-> "error", confidence |-> 0, source |-> Literal("Error")]
FallbackAnswer == [answer |-> "fallback", confidence |-> FallbackConfidence, source |-> Literal("Fallback")]
NoAnswer == [answer |-> "none", confidence |-> 0, source |-> Literal("none")]

\* The loop over the contexts: best_answer after contexts i.. when it was
\* best before.  An exception of the pipeline skips the context.
RECURSIVE BestAnswerFrom(_, _, _, _)
BestAnswerFrom(contexts, qa, i, best) ==
    IF i > Len(contexts) THEN best
    ELSE IF ~qa[i].raised /\ qa[i].score > best.confidence
         THEN BestAnswerFrom(contexts, qa, i + 1,
                  [answer |-> "span", confidence |-> qa[i].score,
                   source |-> FromChunk(contexts[i].metadata)])
         ELSE BestAnswerFrom(contexts, qa, i + 1, best)

BestAnswer(contexts, qa) == BestAnswerFrom(contexts, qa, 1, NoAnswer)

\* not best_answer with the threshold test left out
NoBestAnswer(best, confidence_threshold) == best = NoAnswer

\* not best_answer or best_confidence < confidence_threshold
UsesFallback(best, confidence_threshold) ==
    best = NoAnswer \/ best.confidence < confidence_threshold

\* _generate_fallback_answer: question.lower() raises on None, and the
\* function then returns its own error answer.
GenerateFallbackAnswer(question) ==
    IF question = None THEN ErrorAnswer ELSE FallbackAnswer

\* What answer_question returns.  _generate_follow_up_questions calls
\* original_question.lower() outside any inner try, so a None question ends
\* in the outer except.
AnswerFor(question, confidence_threshold, contexts, qa) ==
    IF contexts = <<>> THEN NoInformation
    ELSE LET best == BestAnswer(contexts, qa)
             best_answer == IF UsesFallback(best, confidence_threshold)
                            THEN GenerateFallbackAnswer(question)
                            ELSE best
         IN  IF question = None THEN ErrorAnswer ELSE best_answer

\* answer_question.  query_raises: collection.query raised and
\* _retrieve_relevant_contexts returned [].  rag_result keeps, with the
\* answer, the call's question and threshold, the number of contexts
\* retrieved and what the pipeline made of each.
AnswerQuestion(question, policy_id, top_k, confidence_threshold, query_raises, contexts, qa) ==
    /\ contexts \in (IF query_raises THEN {<<>>} ELSE RetrievableContexts(policy_id, top_k))
    /\ qa \in [1..Len(contexts) -> QAOutcomes]
    /\ rag_result' = [op |-> "answer_question", raised |-> FALSE,
                      question |-> question,
                      confidence_threshold |-> confidence_threshold,
                      retrieved |-> Len(contexts), qa_results |-> qa,
                      value |-> AnswerFor(question, confidence_threshold, contexts, qa)]
    /\ UNCHANGED collection
    /\ UNCHANGED <<waVars, peVars, ckVars, extVars>>

\* get_policy_summary
GetPolicySummary(policy_id) ==
    /\ rag_result' =
         IF Where(policy_id) = {}
         THEN [op |-> "get_policy_summary", raised |-> FALSE,
               value |-> [error |-> "Policy not found", policy_id |-> policy_id]]
         ELSE [op |-> "get_policy_summary", raised |-> FALSE,
               value |-> [policy_id |-> policy_id,
                          total_chunks |-> Cardinality(Where(policy_id))]]
    /\ UNCHANGED collection
    /\ UNCHANGED <<waVars, peVars, ckVars, extVars>>

\* delete_policy
RagDeletePolicy(policy_id) ==
    /\ collection' = collection \ Where(policy_id)
    /\ rag_result' = [op |-> "delete_policy", raised |-> FALSE,
                      value |-> Where(policy_id) # {}]
    /\ UNCHANGED <<waVars, peVars, ckVars, extVars>>

\* update_policy: delete_policy, then add_policy_document with
\* metadata['doc_id'] = policy_id and the default chunking.
UpdatePolicy(policy_id, new_text, add_raises) ==
    LET kept == collection \ Where(policy_id)
        metadata == [doc_id |-> policy_id]
        entries == ChunkEntries(new_text, metadata, DefaultChunking)
    IN  /\ add_raises => IdsOf(entries) \cap IdsOf(kept) # {}
        /\ collection' = IF add_raises THEN kept
                         ELSE kept \cup {e \in entries : e.id \notin IdsOf(kept)}
        /\ rag_result' = [op |-> "update_policy", raised |-> FALSE,
                          value |-> ~add_raises]
        /\ UNCHANGED <<waVars, peVars, ckVars, extVars>>

NextRag ==
    \/ \E t \in PolicyTexts, c \in Chunkings, r \in BOOLEAN :
          AddPolicyDocument(t, TestMetadata, c, r)
    \/ \E q \in Questions, p \in PolicyIdArgs, k \in TopKs, th \in Thresholds, r \in BOOLEAN :
          \E ctxs \in RetrievableContexts(p, k) \cup {<<>>} :
             \E qa \in [1..Len(ctxs) -> QAOutcomes] :
                AnswerQuestion(q, p, k, th, r, ctxs, qa)
    \/ \E p \in DocIds : GetPolicySummary(p)
    \/ \E p \in DocIds : RagDeletePolicy(p)
    \/ \E p \in DocIds, t \in PolicyTexts, r \in BOOLEAN : UpdatePolicy(p, t, r)

(***************************************************************************)
(*      HTTP endpoints: rag-qa/main.py and voice-system/main.py            *)
(***************************************************************************)

\* The IDs of the requests, and the languages of the generated voices.
RequestIds == {"q1", "q2", "q3"}
Languages == {"en", "hi", "mr"}

\* What a handler's body ends with: a returned value, an HTTPException, or
\* another exception.
Ok == [raised |-> FALSE, exception |-> "none", status_code |-> 200]
HttpException(status_code) ==
    [raised |-> TRUE, exception |-> "HTTPException", status_code |-> status_code]
OtherException == [raised |-> TRUE, exception |-> "Exception", status_code |-> 500]

\* except Exception as e: raise HTTPException(status_code=500, ...).
\* HTTPException is a subclass of Exception, so the handler catches it too.
ExceptException(outcome) ==
    IF outcome.raised THEN HttpException(500) ELSE outcome

\* What the call of a component gives the handler: data, nothing (None or
\* an empty value), or an exception.
Lookups == {"data", "nothing", "raised"}

\* The try body of the three GET handlers: if not data: raise
\* HTTPException(status_code=404, ...); return data.
GetBody(lookup) ==
    IF lookup = "raised" THEN OtherException
    ELSE IF lookup = "nothing" THEN HttpException(404)
    ELSE Ok

\* The try body of process_voice_query: if not transcription: raise
\* HTTPException(status_code=400, ...); then process_query, add_task, return.
VoiceQueryBody(transcription, query) ==
    IF transcription = "raised" THEN OtherException
    ELSE IF transcription = "nothing" THEN HttpException(400)
    ELSE IF query = "raised" THEN OtherException
    ELSE Ok

\* self.quality_metrics.get(request_id)
QualityLookup(request_id) ==
    IF request_id \in DOMAIN quality_metrics THEN "data" ELSE "nothing"

Answer(endpoint, id, lookup, outcome) ==
    [endpoint |-> endpoint, id |-> id, lookup |-> lookup,
     status_code |-> outcome.status_code]

InitApi ==
    /\ quality_metrics = <<>>
    /\ api_response = [endpoint |-> "none"]

\* VoiceGenerator._store_quality_metrics, at the end of a generate_voice.
StoreQualityMetrics(request_id, language) ==
    /\ quality_metrics' = Put(quality_metrics, request_id,
                              [request_id |-> request_id, language |-> language])
    /\ UNCHANGED api_response
    /\ UNCHANGED <<coreVars, auxVars>>
    /\ UNCHANGED vsVars

\* GET /quality/{request_id}
GetQualityMetrics(request_id) ==
    /\ api_response' = Answer("GET /quality", request_id, QualityLookup(request_id),
                              ExceptException(GetBody(QualityLookup(request_id))))
    /\ UNCHANGED quality_metrics
    /\ UNCHANGED <<coreVars, auxVars>>
    /\ UNCHANGED vsVars

\* GET /confidence/{query_id}
GetConfidenceScore(query_id, lookup) ==
    /\ api_response' = Answer("GET /confidence", query_id, lookup,
                              ExceptException(GetBody(lookup)))
    /\ UNCHANGED quality_metrics
    /\ UNCHANGED <<coreVars, auxVars>>
    /\ UNCHANGED vsVars

\* GET /feedback/{query_id}
GetQueryFeedback(query_id, lookup) ==
    /\ api_response' = Answer("GET /feedback", query_id, lookup,
                              ExceptException(GetBody(lookup)))
    /\ UNCHANGED quality_metrics
    /\ UNCHANGED <<coreVars, auxVars>>
    /\ UNCHANGED vsVars

\* POST /voice-query
ProcessVoiceQuery(phone_number, transcription, query) ==
    /\ api_response' = Answer("POST /voice-query", phone_number, transcription,
                              ExceptException(VoiceQueryBody(transcription, query)))
    /\ UNCHANGED quality_metrics
    /\ UNCHANGED <<coreVars, auxVars>>
    /\ UNCHANGED vsVars

NextApi ==
    \/ \E r \in RequestIds, l \in Languages : StoreQualityMetrics(r, l)
    \/ \E r \in RequestIds : GetQualityMetrics(r)
    \/ \E q \in RequestIds, l \in Lookups : GetConfidenceScore(q, l)
    \/ \E q \in RequestIds, l \in Lookups : GetQueryFeedback(q, l)
    \/ \E t \in Lookups, q \in {"data", "raised"} : ProcessVoiceQuery(PhoneText, t, q)

(***************************************************************************)
(*                 VectorStore: policy-engine/vector_store.py              *)
(***************************************************************************)

\* create_embeddings is called while a policy has fewer than MaxIndexEntries
\* index entries (every call appends to the policy's index).
MaxIndexEntries == 3
\* search_similar is called with top_k in 0..MaxTopK.
MaxTopK == 2
\* Under searches a policy is embedded while its index has fewer entries.
MaxSearchEntries == 2
\* len(item.strip()) > 10
MinContentLength == 10
\* if similarity > 0.3, in hundredths
SimilarityThreshold == 30

VsPolicies == {"P1", "P2"}

HospitalText == "Hospital stay covered"
SurgeryText == "Cosmetic surgery excluded"
ShortText == " short "

\* The structured_data of a policy: its sections in the dict's order, each a
\* list of strings, one string, or a value of another type.
TwoSections ==
    << [section |-> "coverage", type |-> "list", items |-> <<HospitalText, ShortText>>],
       [section |-> "exclusions", type |-> "str", items |-> <<SurgeryText>>],
       [section |-> "premium", type |-> "other", items |-> <<>>] >>
OneSection ==
    << [section |-> "coverage", type |-> "list", items |-> <<SurgeryText>>] >>
StructuredDatas == {TwoSections, OneSection}

\* The strings of a section that become chunks.
RECURSIVE SectionContents(_)
SectionContents(items) ==
    IF items = <<>> THEN <<>>
    ELSE (IF Len(Strip(Head(items))) > MinContentLength
          THEN <<Strip(Head(items))>> ELSE <<>>) \o SectionContents(Tail(items))

\* all_chunks: the chunks of the sections from the i-th on, numbered from
\* chunk_id.  The chunk ID f"{policy_id}_chunk_{chunk_id}" is a pair.
RECURSIVE AllChunksFrom(_, _, _, _)
AllChunksFrom(structured_data, policy_id, i, chunk_id) ==
    IF i > Len(structured_data) THEN <<>>
    ELSE LET s == structured_data[i]
             contents == IF s.type \in {"list", "str"}
                         THEN SectionContents(s.items) ELSE <<>>
             here == [k \in 1..Len(contents) |->
                        [chunk_id |-> <<policy_id, chunk_id + k - 1>>,
                         policy_id |-> policy_id,
                         section |-> s.section,
                         content |-> contents[k]]]
         IN  here \o AllChunksFrom(structured_data, policy_id, i + 1,
                                   chunk_id + Len(contents))

AllChunks(structured_data, policy_id) ==
    AllChunksFrom(structured_data, policy_id, 1, 0)

\* _generate_embedding: the vector of a text, here the text it is the vector
\* of; _cosine_similarity compares two of them.
GenerateEmbedding(content) == [of |-> content]

\* embedding_data of a chunk
EmbeddingData(chunk) ==
    [chunk_id |-> chunk.chunk_id,
     policy_id |-> chunk.policy_id,
     embedding |-> GenerateEmbedding(chunk.content),
     section |-> chunk.section,
     content_length |-> Len(chunk.content)]

\* A dict whose order of keys matters: a sequence of keys with values.
DictKeys(d) == {d[i].key : i \in DOMAIN d}
DictGet(d, k) == d[CHOOSE i \in DOMAIN d : d[i].key = k].value
DictSet(d, k, v) ==
    IF k \in DictKeys(d)
    THEN [i \in DOMAIN d |-> IF d[i].key = k THEN [key |-> k, value |-> v] ELSE d[i]]
    ELSE Append(d, [key |-> k, value |-> v])
DictDel(d, k) == SelectSeq(d, LAMBDA e : e.key # k)

\* json.dump and json.load of the store's dicts and lists
JsonDump(value) == [json |-> value]
JsonLoad(file) == file.json

\* The three files of a policy in storage_dir.
EmbeddingsFile(policy_id) == <<policy_id, "embeddings.json">>
ChunksFile(policy_id) == <<policy_id, "chunks.json">>
IndexFile(policy_id) == <<policy_id, "index.json">>
FilesOf(policy_id) ==
    {EmbeddingsFile(policy_id), ChunksFile(policy_id), IndexFile(policy_id)}

\* _update_search_index: the sections of a policy's index after the
\* embeddings from the i-th on are appended.
RECURSIVE IndexWith(_, _, _)
IndexWith(sections, embeddings, i) ==
    IF i > Len(embeddings) THEN sections
    ELSE LET e == embeddings[i]
             listed == IF e.section \in DOMAIN sections THEN sections[e.section] ELSE <<>>
         IN  IndexWith(Put(sections, e.section,
                           Append(listed, [chunk_id |-> e.chunk_id,
                                           content_length |-> e.content_length])),
                       embeddings, i + 1)

\* The number of entries in a policy's index.
RECURSIVE SumOver(_, _)
SumOver(f, S) ==
    IF S = {} THEN 0
    ELSE LET x == CHOOSE y \in S : TRUE IN Len(f[x]) + SumOver(f, S \ {x})

IndexEntries(policy_id) ==
    IF policy_id \in DOMAIN vs_index
    THEN SumOver(vs_index[policy_id], DOMAIN vs_index[policy_id]) ELSE 0

\* The chunks of a dict of chunks whose policy_id is policy_id.
PolicyChunksOf(all, policy_id) ==
    [id \in {c \in DOMAIN all : all[c].policy_id = policy_id} |-> all[id]]

InitVectorStore ==
    /\ vs_embeddings = <<>>
    /\ vs_chunks = <<>>
    /\ vs_index = <<>>
    /\ vs_disk = <<>>
    /\ vs_result = [op |-> "none"]

\* create_embeddings, _update_search_index and _save_to_disk included.
CreateEmbeddings(structured_data, policy_id) ==
    LET all_chunks == AllChunks(structured_data, policy_id)
        embeddings == [i \in 1..Len(all_chunks) |-> EmbeddingData(all_chunks[i])]
        new_ids == {all_chunks[i].chunk_id : i \in 1..Len(all_chunks)}
        chunks_after == [id \in DOMAIN vs_chunks \cup new_ids |->
                           IF id \in new_ids
                           THEN all_chunks[CHOOSE i \in 1..Len(all_chunks) :
                                              all_chunks[i].chunk_id = id]
                           ELSE vs_chunks[id]]
        sections == IF policy_id \in DOMAIN vs_index THEN vs_index[policy_id] ELSE <<>>
        index_after == Put(vs_index, policy_id, IndexWith(sections, embeddings, 1))
    IN  /\ IndexEntries(policy_id) < MaxIndexEntries
        /\ vs_embeddings' = DictSet(vs_embeddings, policy_id, embeddings)
        /\ vs_chunks' = chunks_after
        /\ vs_index' = index_after
        /\ vs_disk' =
             Put(Put(Put(vs_disk,
                 EmbeddingsFile(policy_id), JsonDump(embeddings)),
                 ChunksFile(policy_id), JsonDump(PolicyChunksOf(chunks_after, policy_id))),
                 IndexFile(policy_id), JsonDump(index_after[policy_id]))
        /\ vs_result' = [op |-> "create_embeddings", policy_id |-> policy_id,
                         value |-> TRUE]
        /\ UNCHANGED <<coreVars, auxVars>>
        /\ UNCHANGED apiVars

\* The queries of search_similar.
MixedQuery == "surgery and hospital stay"
StayQuery == "stay"
Queries == {HospitalText, MixedQuery, StayQuery, ""}

\* _cosine_similarity in hundredths: 0.0 when a norm is 0 (a text without
\* words), 1.0 for the vectors of the same text.
CosineSimilarity(vec1, vec2) ==
    IF vec1.of = "" \/ vec2.of = "" THEN 0
    ELSE IF vec1.of = vec2.of THEN 100
    ELSE IF vec1.of = MixedQuery /\ vec2.of = HospitalText THEN 60
    ELSE IF vec1.of = MixedQuery /\ vec2.of = SurgeryText THEN 45
    ELSE IF vec1.of = StayQuery /\ vec2.of = HospitalText THEN 30
    ELSE IF vec1.of = StayQuery /\ vec2.of = SurgeryText THEN 31
    ELSE 0

\* similarity >= 0.3
AtThreshold(similarity) == similarity >= SimilarityThreshold

\* similarity > 0.3
AboveThreshold(similarity) == similarity > SimilarityThreshold

\* The results of the policies from the i-th of target_policies on, before
\* the sort.
RECURSIVE ResultsFrom(_, _, _)
ResultsFrom(query_embedding, target_policies, i) ==
    IF i > Len(target_policies) THEN <<>>
    ELSE LET policy == target_policies[i]
             stored == IF policy \in DictKeys(vs_embeddings)
                       THEN DictGet(vs_embeddings, policy) ELSE <<>>
             all == [k \in 1..Len(stored) |->
                       [chunk_id |-> stored[k].chunk_id,
                        policy_id |-> policy,
                        section |-> stored[k].section,
                        content |-> IF stored[k].chunk_id \in DOMAIN vs_chunks
                                    THEN vs_chunks[stored[k].chunk_id].content ELSE "",
                        similarity_score |-> CosineSimilarity(query_embedding,
                                                              stored[k].embedding),
                        content_length |-> stored[k].content_length]]
         IN  SelectSeq(all, LAMBDA r : AboveThreshold(r.similarity_score))
                \o ResultsFrom(query_embedding, target_policies, i + 1)

\* results.sort(key=..., reverse=True): a stable sort, so results of equal
\* score keep their order.
RECURSIVE SortBySimilarity(_)
SortBySimilarity(results) ==
    IF results = <<>> THEN <<>>
    ELSE LET sorted == SortBySimilarity(SubSeq(results, 1, Len(results) - 1))
             last == results[Len(results)]
             before == SelectSeq(sorted, LAMBDA r : r.similarity_score >= last.similarity_score)
             after == SelectSeq(sorted, LAMBDA r : r.similarity_score < last.similarity_score)
         IN  before \o <<last>> \o after

\* What search_similar returns.
SimilarResults(query, policy_id, top_k) ==
    LET target_policies ==
            IF policy_id # None /\ policy_id # ""
            THEN <<policy_id>>
            ELSE [i \in DOMAIN vs_embeddings |-> vs_embeddings[i].key]
        results == SortBySimilarity(
                       ResultsFrom(GenerateEmbedding(query), target_policies, 1))
    IN  SubSeq(results, 1, SliceIndex(top_k, Len(results)))

\* search_similar
SearchSimilar(query, policy_id, top_k) ==
    /\ vs_result' = [op |-> "search_similar", query |-> query,
                     policy_id |-> policy_id, top_k |-> top_k,
                     value |-> SimilarResults(query, policy_id, top_k)]
    /\ UNCHANGED <<vs_embeddings, vs_chunks, vs_index, vs_disk>>
    /\ UNCHANGED <<coreVars, auxVars>>
    /\ UNCHANGED apiVars

\* What get_policy_chunks returns (the chunks of the list).
PolicyChunks(policy_id, section) ==
    {vs_chunks[id] : id \in {c \in DOMAIN vs_chunks :
        /\ vs_chunks[c].policy_id = policy_id
        /\ (section = None \/ vs_chunks[c].section = section)}}

\* get_policy_chunks
GetPolicyChunks(policy_id, section) ==
    /\ vs_result' = [op |-> "get_policy_chunks", policy_id |-> policy_id,
                     value |-> PolicyChunks(policy_id, section)]
    /\ UNCHANGED <<vs_embeddings, vs_chunks, vs_index, vs_disk>>
    /\ UNCHANGED <<coreVars, auxVars>>
    /\ UNCHANGED apiVars

\* The chunks of the policy's embeddings.
EmbeddedChunks(policy_id) ==
    IF policy_id \in DictKeys(vs_embeddings)
    THEN {DictGet(vs_embeddings, policy_id)[i].chunk_id :
             i \in DOMAIN DictGet(vs_embeddings, policy_id)}
    ELSE {}

\* chunks_to_remove
ChunksToRemove(policy_id) ==
    {id \in DOMAIN vs_chunks : vs_chunks[id].policy_id = policy_id}

\* delete_policy, _delete_from_disk included.
VsDeletePolicy(policy_id) ==
    /\ vs_embeddings' = DictDel(vs_embeddings, policy_id)
    /\ vs_index' = Remove(vs_index, {policy_id})
    /\ vs_chunks' = Remove(vs_chunks, ChunksToRemove(policy_id))
    /\ vs_disk' = Remove(vs_disk, FilesOf(policy_id))
    /\ vs_result' = [op |-> "delete_policy", policy_id |-> policy_id,
                     chunks_removed |-> Cardinality(ChunksToRemove(policy_id)),
                     value |-> TRUE]
    /\ UNCHANGED <<coreVars, auxVars>>
    /\ UNCHANGED apiVars

\* import os at the top of vector_store.py.  The module has none: __init__
\* and _delete_from_disk import os locally, load_from_disk does not, and its
\* os.path.exists raises NameError.
OsImported == FALSE

\* The store after the three files of a policy are read.
LoadedEmbeddings(policy_id) ==
    IF EmbeddingsFile(policy_id) \in DOMAIN vs_disk
    THEN DictSet(vs_embeddings, policy_id, JsonLoad(vs_disk[EmbeddingsFile(policy_id)]))
    ELSE vs_embeddings
LoadedChunks(policy_id) ==
    IF ChunksFile(policy_id) \in DOMAIN vs_disk
    THEN LET policy_chunks == JsonLoad(vs_disk[ChunksFile(policy_id)])
         IN  [id \in DOMAIN vs_chunks \cup DOMAIN policy_chunks |->
                IF id \in DOMAIN policy_chunks THEN policy_chunks[id] ELSE vs_chunks[id]]
    ELSE vs_chunks
LoadedIndex(policy_id) ==
    IF IndexFile(policy_id) \in DOMAIN vs_disk
    THEN Put(vs_index, policy_id, JsonLoad(vs_disk[IndexFile(policy_id)]))
    ELSE vs_index

\* load_from_disk: the NameError is caught and the method returns False.
LoadFromDisk(policy_id) ==
    /\ vs_embeddings' = IF OsImported THEN LoadedEmbeddings(policy_id) ELSE vs_embeddings
    /\ vs_chunks' = IF OsImported THEN LoadedChunks(policy_id) ELSE vs_chunks
    /\ vs_index' = IF OsImported THEN LoadedIndex(policy_id) ELSE vs_index
    /\ vs_result' = [op |-> "load_from_disk", policy_id |-> policy_id,
                     value |-> OsImported]
    /\ UNCHANGED vs_disk
    /\ UNCHANGED <<coreVars, auxVars>>
    /\ UNCHANGED apiVars

\* VectorStore(): a fresh store over the same storage_dir.
NewVectorStore ==
    /\ vs_embeddings' = <<>>
    /\ vs_chunks' = <<>>
    /\ vs_index' = <<>>
    /\ vs_result' = [op |-> "VectorStore"]
    /\ UNCHANGED vs_disk
    /\ UNCHANGED <<coreVars, auxVars>>
    /\ UNCHANGED apiVars

NextVectorStore ==
    \/ \E d \in StructuredDatas, p \in VsPolicies : CreateEmbeddings(d, p)
    \/ \E p \in VsPolicies, s \in {None, "coverage"} : GetPolicyChunks(p, s)
    \/ \E p \in VsPolicies : VsDeletePolicy(p)
    \/ \E p \in VsPolicies : LoadFromDisk(p)
    \/ NewVectorStore

\* The store under searches.
NextSearch ==
    \/ \E d \in StructuredDatas, p \in VsPolicies :
          IndexEntries(p) < MaxSearchEntries /\ CreateEmbeddings(d, p)
    \/ \E q \in Queries, p \in VsPolicies \cup {None, ""}, k \in 0..MaxTopK :
          SearchSimilar(q, p, k)
    \/ \E p \in VsPolicies : VsDeletePolicy(p)

(***************************************************************************)
(*        RAGChatInterface (FieldProjectRAG model/Codes/rag_model.py)      *)
(***************************************************************************)

\* chat is called while the histories together have fewer messages.
MaxMessages == 3

ChatUsers == {"u1", "u2"}

\* The messages: a greeting, a request for help, a goodbye, a question for
\* the RAG system, and None, on which message.lower() raises.
ChatMessages == {"Hello", "help me", "Goodbye", "Is surgery covered?", None}

GreetingWords == {"hello", "hi", "namaste"}
HelpWords == {"help"}
GoodbyeWords == {"bye", "goodbye"}

\* any(word in message.lower() for word in words)
AnyWordIn(message, words) == \E word \in words : Contains(Lower(message), word)

\* The handler chat picks for a message, by the 'source' of its response:
\* the if/elif chain of chat.
HandlerOf(message) ==
    IF AnyWordIn(message, GreetingWords) THEN "Greeting"
    ELSE IF AnyWordIn(message, HelpWords) THEN "Help"
    ELSE IF AnyWordIn(message, GoodbyeWords) THEN "Goodbye"
    ELSE "RAG"

\* The handler of each message that has a lower().
HandlerTable == [message \in ChatMessages \ {None} |-> HandlerOf(message)]

\* The 'source' of rag_system.answer_question's response, which has an
\* 'answer' on every path.
RagSources == {"Policy Document"}

\* The number of messages in all conversations.
RECURSIVE MessagesOf(_)
MessagesOf(users) ==
    IF users = {} THEN 0
    ELSE LET u == CHOOSE x \in users : TRUE
         IN  Len(conversation_history[u].messages) + MessagesOf(users \ {u})

\* The response of a handler, before chat adds the conversation context.
HandlerResponse(source) ==
    [answer |-> "answer of " \o source,
     source |-> source]

\* The dict chat returns from its except block.
ChatError(user_id) ==
    [answer |-> "Sorry, I'm having trouble understanding. Can you please rephrase?",
     confidence |-> 0,
     source |-> "Error",
     conversation_id |-> user_id]

\* The conversation of a user as chat finds or creates it; 'ended' is FALSE
\* while the dict has no such key.
ConversationOf(user_id, policy_id) ==
    IF user_id \in DOMAIN conversation_history
    THEN conversation_history[user_id]
    ELSE [messages |-> <<>>, policy_context |-> policy_id, ended |-> FALSE]

\* _handle_goodbye's effect on the conversation.
AfterGoodbye(conversation) == [conversation EXCEPT !.ended = TRUE]

InitChat ==
    /\ conversation_history = <<>>
    /\ chat_response = [op |-> "none"]

\* chat(user_id, message, policy_id); rag_source is the source of the RAG
\* system's response when the message goes to it.
Chat(user_id, message, policy_id, rag_source) ==
    LET found == ConversationOf(user_id, policy_id)
        asked == [found EXCEPT !.messages =
                     Append(@, [role |-> "user", content |-> message])]
        raised == message = None
        handler == HandlerTable[message]
        source == IF handler = "RAG" THEN rag_source ELSE handler
        handled == IF handler = "Goodbye" THEN AfterGoodbye(asked) ELSE asked
        reply == HandlerResponse(source)
        answered == [handled EXCEPT !.messages =
                        Append(@, [role |-> "assistant", content |-> reply.answer])]
    IN  /\ MessagesOf(DOMAIN conversation_history) < MaxMessages
        /\ conversation_history' =
              Put(conversation_history, user_id, IF raised THEN asked ELSE answered)
        /\ chat_response' =
              [op |-> "chat", user_id |-> user_id, message |-> message,
               value |-> IF raised THEN ChatError(user_id)
                         ELSE [answer |-> reply.answer,
                               source |-> reply.source,
                               conversation_id |-> user_id,
                               message_count |-> Len(answered.messages)]]
        /\ UNCHANGED <<coreVars, apiVars, vsVars, valVars, textVars>>

\* get_conversation_history(user_id)
GetConversationHistory(user_id) ==
    /\ chat_response' =
          [op |-> "get_conversation_history", user_id |-> user_id,
           value |-> IF user_id \in DOMAIN conversation_history
                     THEN conversation_history[user_id] ELSE None]
    /\ UNCHANGED conversation_history
    /\ UNCHANGED <<coreVars, apiVars, vsVars, valVars, textVars>>

\* clear_conversation_history(user_id)
ClearConversationHistory(user_id) ==
    /\ conversation_history' = Remove(conversation_history, {user_id})
    /\ chat_response' =
          [op |-> "clear_conversation_history", user_id |-> user_id,
           value |-> user_id \in DOMAIN conversation_history]
    /\ UNCHANGED <<coreVars, apiVars, vsVars, valVars, textVars>>

NextChat ==
    \/ \E u \in ChatUsers, m \in ChatMessages, p \in {None, "P1"}, s \in RagSources :
          Chat(u, m, p, s)
    \/ \E u \in ChatUsers : GetConversationHistory(u)
    \/ \E u \in ChatUsers : ClearConversationHistory(u)

(***************************************************************************)
(*   validation scripts (validation/run_all_validations.py and             *)
(*   validation/validate_performance_metrics.py)                           *)
(***************************************************************************)

\* The research validator finds up to MaxErrors errors in the data files.
MaxErrors == 1

ResearchScript == "validate_research_stats.py"
PerformanceScript == "validate_performance_metrics.py"

\* What a test of an API can record: its average time is below the target
\* or not, or its try block raised.
TestStatuses == {"PASSED", "FAILED", "ERROR"}

\* A value of a dict that is no dict itself.
Scalar(v) == [scalar |-> v]

\* The dict a test method stores when its try block raised.
ErrorResult == [status |-> "ERROR", error |-> "str(e)"]

\* results of test_ocr_accuracy, accuracies in hundredths
OcrResults ==
    LET expected == [clean_pdf |-> 99, scanned_300dpi |-> 98,
                     handwritten_annotation |-> 95]
    IN  [t \in DOMAIN expected |->
           [expected |-> expected[t], actual |-> expected[t] - 1,
            status |-> IF expected[t] - 1 >= 95 THEN "PASSED" ELSE "FAILED"]]

\* results of test_voice_generation, success rates in hundredths
VoiceResults ==
    LET success_rate == [en |-> 99, hi |-> 98, mr |-> 96]
    IN  [lang \in DOMAIN success_rate |->
           [success_rate |-> success_rate[lang],
            status |-> IF success_rate[lang] >= 95 THEN "PASSED" ELSE "FAILED"]]

\* results of test_rag_accuracy, accuracies in hundredths; the mean of the
\* four is compared as their sum with 4 * 85.
RagResults ==
    LET expected == [coverage |-> 90, exclusions |-> 85, claims |-> 88, premium |-> 92]
        sum == (90 - 2) + (85 - 2) + (88 - 2) + (92 - 2)
    IN  [k \in DOMAIN expected \cup {"overall_accuracy", "overall_status"} |->
           IF k = "overall_accuracy" THEN Scalar(<<sum, 4>>)
           ELSE IF k = "overall_status"
                THEN Scalar(IF sum >= 4 * 85 THEN "PASSED" ELSE "FAILED")
           ELSE [expected |-> expected[k], actual |-> expected[k] - 2,
                 status |-> IF expected[k] - 2 >= 80 THEN "PASSED" ELSE "FAILED"]]

\* The test results generate_report counts, as <<category>> or
\* <<category, test name>>.
CountedResults(tests) ==
    UNION {IF "status" \in DOMAIN tests[c] THEN {<<c>>}
           ELSE {<<c, n>> : n \in {k \in DOMAIN tests[c] : "status" \in DOMAIN tests[c][k]}} :
             c \in DOMAIN tests}

\* The status of a counted result.
StatusOf(tests, r) ==
    IF Len(r) = 1 THEN tests[r[1]].status ELSE tests[r[1]][r[2]].status

\* if status == 'FAILED'
CountsAsFailed(status) == status = "FAILED"

\* The same for a result that did not pass.
CountsAsFailedOrError(status) == status \in {"FAILED", "ERROR"}

\* self.results['summary'] as generate_report sets it.
Summary(tests) ==
    LET total_tests == Cardinality(CountedResults(tests))
        failed_tests == Cardinality({r \in CountedResults(tests) :
                                        CountsAsFailed(StatusOf(tests, r))})
    IN  [total_tests |-> total_tests,
         passed_tests |-> total_tests - failed_tests,
         failed_tests |-> failed_tests,
         overall_status |-> IF failed_tests = 0 THEN "PASSED" ELSE "FAILED"]

InitValidation ==
    /\ val_pc = "research"
    /\ perf_results = [tests |-> <<>>, summary |-> <<>>]
    /\ script_runs = <<>>
    /\ validation_results = <<>>
    /\ all_passed = TRUE
    /\ exit_code = None

\* The body of main's loop after the script's process ended: whether the
\* process died of an exception, what validate_all returned in it if not,
\* and its return code.
RecordScript(script_name, raised, validate_all, returncode) ==
    LET success == returncode = 0
    IN  /\ script_runs' = Put(script_runs, script_name,
                              [raised |-> raised,
                               validate_all |-> ~raised /\ validate_all,
                               returncode |-> returncode])
        /\ validation_results' =
              Put(validation_results, script_name,
                  [status |-> IF success THEN "PASSED" ELSE "FAILED"])
        /\ all_passed' = (all_passed /\ success)

\* main's loop for validate_research_stats.py.  Its __main__ calls
\* sys.exit(0) when validate_all returned True and runs off its end
\* otherwise; both end the process with code 0.
RunResearchValidation(errors, crashed) ==
    /\ val_pc = "research"
    /\ RecordScript(ResearchScript, crashed, errors = 0, IF crashed THEN 1 ELSE 0)
    /\ val_pc' = "api"
    /\ UNCHANGED <<perf_results, exit_code>>
    /\ UNCHANGED <<coreVars, apiVars, vsVars, chatVars, textVars>>

\* The steps of validate_all in the process of
\* validate_performance_metrics.py.
PerformanceTest(pc, category, results, next_pc) ==
    /\ val_pc = pc
    /\ perf_results' = [perf_results EXCEPT !.tests = Put(@, category, results)]
    /\ val_pc' = next_pc
    /\ UNCHANGED <<script_runs, validation_results, all_passed, exit_code>>
    /\ UNCHANGED <<coreVars, apiVars, vsVars, chatVars, textVars>>

TestApiPerformance(policy_engine, voice_system, rag_qa) ==
    LET result(status) == IF status = "ERROR" THEN ErrorResult ELSE [status |-> status]
    IN  PerformanceTest("api", "api_performance",
                        [policy_engine |-> result(policy_engine),
                         voice_system |-> result(voice_system),
                         rag_qa |-> result(rag_qa)], "ocr")

TestOcrAccuracy(raised) ==
    PerformanceTest("ocr", "ocr_accuracy",
                    IF raised THEN ErrorResult ELSE OcrResults, "voice")

TestVoiceGeneration(raised) ==
    PerformanceTest("voice", "voice_generation",
                    IF raised THEN ErrorResult ELSE VoiceResults, "rag")

TestRagAccuracy(raised) ==
    PerformanceTest("rag", "rag_accuracy",
                    IF raised THEN ErrorResult ELSE RagResults, "report")

\* generate_report, the rest of validate_all and of __main__, and main's loop
\* for the script.  When the report cannot be written, open raises and the
\* process ends with code 1; otherwise __main__ prints and ends with code 0.
GenerateReport(saved) ==
    LET summary == Summary(perf_results.tests)
    IN  /\ val_pc = "report"
        /\ perf_results' = [perf_results EXCEPT !.summary = summary]
        /\ RecordScript(PerformanceScript, ~saved, summary.overall_status = "PASSED",
                        IF saved THEN 0 ELSE 1)
        /\ val_pc' = "summary"
        /\ UNCHANGED exit_code
        /\ UNCHANGED <<coreVars, apiVars, vsVars, chatVars, textVars>>

\* main after its loop
MainSummary ==
    /\ val_pc = "summary"
    /\ exit_code' = IF all_passed THEN 0 ELSE 1
    /\ val_pc' = "done"
    /\ UNCHANGED <<perf_results, script_runs, validation_results, all_passed>>
    /\ UNCHANGED <<coreVars, apiVars, vsVars, chatVars, textVars>>

NextValidation ==
    \/ \E errors \in 0..MaxErrors, crashed \in BOOLEAN : RunResearchValidation(errors, crashed)
    \/ \E pe \in TestStatuses, vs \in TestStatuses, rq \in TestStatuses :
          TestApiPerformance(pe, vs, rq)
    \/ \E raised \in BOOLEAN : TestOcrAccuracy(raised)
    \/ \E raised \in BOOLEAN : TestVoiceGeneration(raised)
    \/ \E raised \in BOOLEAN : TestRagAccuracy(raised)
    \/ \E saved \in BOOLEAN : GenerateReport(saved)
    \/ MainSummary

(***************************************************************************)
(*     TextSimplifier._break_long_sentences (voice-system/text_simplifier.py) *)
(***************************************************************************)

\* The longest sentence of the texts, in words, and the most conjunctions in
\* it.
MaxSentenceWords == 17
MaxConjunctions == 2

\* simplify's target_grade; grade_words has the grades from 1 on.
TargetGrades == {1, 2}

\* A text is its tokens: words, and the characters of [.!?] that end a
\* sentence.
Terminators == {".", "!", "?"}

\* The sentences of n words with "and" at the positions in at.
WordsWith(n, at) == [i \in 1..n |-> IF i \in at THEN "and" ELSE "cover"]

LongSentences ==
    {WordsWith(n, at) : n \in 0..MaxSentenceWords,
                        at \in {a \in SUBSET (1..MaxSentenceWords) :
                                   Cardinality(a) <= MaxConjunctions}}

SimplifierTexts ==
    {before \o sentence \o after :
        before \in {<<>>, <<"cover", "or", "cover", ".", "!">>},
        sentence \in LongSentences,
        after \in {<<>>, <<"?">>}}

\* _split_into_sentences: re.split(r'[.!?]+', text), the empty pieces
\* dropped; each sentence as sentence.split() makes it.
RECURSIVE SentencesFrom(_, _, _)
SentencesFrom(tokens, i, words) ==
    IF i > Len(tokens)
    THEN IF words = <<>> THEN <<>> ELSE <<words>>
    ELSE IF tokens[i] \in Terminators
         THEN (IF words = <<>> THEN <<>> ELSE <<words>>)
                 \o SentencesFrom(tokens, i + 1, <<>>)
         ELSE SentencesFrom(tokens, i + 1, Append(words, tokens[i]))

SplitIntoSentences(tokens) == SentencesFrom(tokens, 1, <<>>)

\* max_words = target_grade * 3 + 5
MaxWordsOf(grade) == grade * 3 + 5

BreakWords == {"and", "or", "but", "which", "that", "who"}

\* current_length >= max_words * 0.8, in integers
NearTarget(current_length, max_words) == 5 * current_length >= 4 * max_words

\* _find_sentence_breaks from the word at index i (from 0) on.
RECURSIVE BreaksFrom(_, _, _, _, _)
BreaksFrom(words, max_words, i, current_length, break_points) ==
    IF i >= Len(words) THEN break_points
    ELSE LET counted == current_length + 1
         IN  IF /\ NearTarget(counted, max_words)
                /\ words[i + 1] \in BreakWords
                /\ i + 1 < Len(words)
             THEN BreaksFrom(words, max_words, i + 1, 0, Append(break_points, i + 1))
             ELSE IF counted >= max_words
                  THEN BreaksFrom(words, max_words, i + 1, 0, Append(break_points, i))
                  ELSE BreaksFrom(words, max_words, i + 1, counted, break_points)

FindSentenceBreaks(words, max_words) == BreaksFrom(words, max_words, 0, 0, <<>>)

\* len(' '.join(words))
RECURSIVE JoinedLength(_)
JoinedLength(words) ==
    IF words = <<>> THEN 0
    ELSE Len(Head(words)) + (IF Len(words) > 1 THEN 1 ELSE 0) + JoinedLength(Tail(words))

\* len(part.strip()) > 10
MinPartLength == 10

\* A part of a sentence with '.' appended, or nothing when it is too short.
PartOf(words) ==
    IF JoinedLength(words) > MinPartLength
    THEN <<[words |-> words, broken |-> TRUE]>> ELSE <<>>

\* The parts of a long sentence from the k-th break point on, and the
\* remaining part.
RECURSIVE PartsFrom(_, _, _, _)
PartsFrom(words, break_points, k, part_start) ==
    IF k > Len(break_points)
    THEN IF part_start < Len(words) THEN PartOf(SubSeq(words, part_start + 1, Len(words))) ELSE <<>>
    ELSE PartOf(SubSeq(words, part_start + 1, break_points[k]))
            \o PartsFrom(words, break_points, k + 1, break_points[k])

\* What the loop body appends to simplified_sentences for one sentence.
BrokenSentence(words, max_words) ==
    IF Len(words) > max_words
    THEN LET break_points == FindSentenceBreaks(words, max_words)
         IN  IF break_points # <<>> THEN PartsFrom(words, break_points, 1, 0)
             ELSE <<[words |-> words, broken |-> FALSE]>>
    ELSE <<[words |-> words, broken |-> FALSE]>>

RECURSIVE BrokenFrom(_, _, _)
BrokenFrom(sentences, max_words, k) ==
    IF k > Len(sentences) THEN <<>>
    ELSE BrokenSentence(sentences[k], max_words) \o BrokenFrom(sentences, max_words, k + 1)

InitSimplifier ==
    /\ simplifier_text \in SimplifierTexts
    /\ target_grade \in TargetGrades
    /\ simplified_sentences = None

\* The simplifier when only the other components run.
InitSimplifierIdle ==
    /\ simplifier_text = <<>>
    /\ target_grade = CHOOSE grade \in TargetGrades : TRUE
    /\ simplified_sentences = None

\* _break_long_sentences(text, target_grade); simplified_sentences holds
\* the list that the method joins with ' '.
BreakLongSentences ==
    /\ simplified_sentences = None
    /\ simplified_sentences' =
          BrokenFrom(SplitIntoSentences(simplifier_text), MaxWordsOf(target_grade), 1)
    /\ UNCHANGED <<simplifier_text, target_grade>>
    /\ UNCHANGED <<coreVars, apiVars, vsVars, chatVars, valVars, exVars, lcVars>>

NextSimplifier == BreakLongSentences

(***************************************************************************)
(*       PolicyProcessor.extract_exclusions (policy-engine/policy_processor.py) *)
(***************************************************************************)

\* The most lines of a text built from DocumentLines, and the most lines of
\* the exclusion section of the long texts.
MaxLines == 4
MaxListed == 12

\* exclusion_patterns
ExclusionPatterns ==
    <<"pre-existing", "cosmetic", "dental", "pregnancy", "alternative therapy",
      "war", "nuclear", "suicide", "intoxication", "hazardous activities",
      "drunk driving", "wear and tear", "consequential loss">>

EnterKeywords == {"exclusions", "what is not covered", "not covered"}
LeaveKeywords == {"coverage", "benefits", "terms", "conditions"}

\* The lines of the short texts.
DocumentLines ==
    {"EXCLUSIONS", "Benefits and coverage", "  Dental treatment  ", "War",
     "Room rent is paid.", "Cosmetic surgery is not covered.",
     "Pregnancy terms apply.", "Suicide. nuclear war risks"}

\* The lines of a long exclusion section.
ListedExclusions ==
    <<"Pre-existing disease", "Cosmetic surgery", "Dental treatment",
      "Pregnancy care", "Alternative therapy", "War and invasion",
      "Nuclear hazard", "Suicide attempt", "Intoxication by alcohol",
      "Hazardous activities", "Drunk driving", "Wear and tear of parts",
      "Consequential loss of use">>

Listed(n) == SubSeq(ListedExclusions, 1, Min(n, Len(ListedExclusions)))

\* The texts, as text.split('\n') has them.
ExclusionTexts ==
    UNION {[1..n -> DocumentLines] : n \in 0..MaxLines}
    \cup {<<"EXCLUSIONS">> \o Listed(n) \o after :
             n \in (MaxListed - 3)..MaxListed,
             after \in {<<>>, <<"Dental treatment", "Benefits and coverage">>}}

\* any(keyword in line_lower for keyword in [...])
AnyKeywordIn(line_lower, keywords) ==
    \E keyword \in keywords : Contains(line_lower, keyword)

\* len(line.strip()) > 10
MinLineLength == 10

\* What the loop tests of a line: line.strip(), and of
\* line_lower = line.lower().strip() the keywords and patterns in it.
FactsOf(line) ==
    LET line_lower == Strip(Lower(line))
    IN  [stripped |-> Strip(line),
         enters |-> AnyKeywordIn(line_lower, EnterKeywords),
         leaves |-> AnyKeywordIn(line_lower, LeaveKeywords),
         long |-> Len(Strip(line)) > MinLineLength,
         pattern |-> \E k \in DOMAIN ExclusionPatterns :
                        Contains(line_lower, ExclusionPatterns[k])]

LineFacts ==
    [line \in DocumentLines \cup {ListedExclusions[k] : k \in DOMAIN ListedExclusions}
        |-> FactsOf(line)]

\* The loop over the lines from the k-th on: the list exclusions after it.
RECURSIVE ScanLines(_, _, _, _)
ScanLines(doc, k, in_exclusion_section, found) ==
    IF k > Len(doc) THEN found
    ELSE LET line == LineFacts[doc[k]]
         IN  IF line.enters
             THEN ScanLines(doc, k + 1, TRUE, found)
             ELSE IF in_exclusion_section /\ line.leaves
                  THEN ScanLines(doc, k + 1, FALSE, found)
                  ELSE IF in_exclusion_section /\ line.long /\ line.pattern
                       THEN ScanLines(doc, k + 1, in_exclusion_section,
                                      Append(found, line.stripped))
                       ELSE ScanLines(doc, k + 1, in_exclusion_section, found)

\* '\n'.join(lines): the text that was split.
RECURSIVE JoinLines(_)
JoinLines(doc) ==
    IF doc = <<>> THEN ""
    ELSE IF Len(doc) = 1 THEN doc[1]
         ELSE doc[1] \o "\n" \o JoinLines(Tail(doc))

\* s.split('.'): the pieces before, between and after the '.' of s
SplitSentences(s) ==
    LET dots == {p \in 1..Len(s) : SubSeq(s, p, p) = "."}
        dot(k) == IF k = 0 THEN 0
                  ELSE IF k > Cardinality(dots) THEN Len(s) + 1
                  ELSE CHOOSE p \in dots : Cardinality({q \in dots : q < p}) = k - 1
    IN  [k \in 1..(Cardinality(dots) + 1) |-> SubSeq(s, dot(k - 1) + 1, dot(k) - 1)]

\* sentence.strip(), of a piece that may span lines
StripSentence(s) ==
    LET kept == {p \in 1..Len(s) : SubSeq(s, p, p) \notin {" ", "\n"}}
    IN  IF kept = {} THEN ""
        ELSE SubSeq(s, CHOOSE p \in kept : \A q \in kept : p <= q,
                       CHOOSE p \in kept : \A q \in kept : q <= p)

\* The search throughout the document, from the k-th pattern on: for each
\* pattern in the text, the first sentence with the pattern in its lower().
RECURSIVE SentenceSearch(_, _, _)
SentenceSearch(whole, sentences, k) ==
    IF k > Len(ExclusionPatterns) THEN <<>>
    ELSE LET pattern == ExclusionPatterns[k]
             holding == {n \in DOMAIN sentences : Contains(Lower(sentences[n]), pattern)}
         IN  (IF Contains(whole, pattern) /\ holding # {}
              THEN <<StripSentence(sentences[CHOOSE n \in holding :
                                                \A o \in holding : n <= o]) \o ".">>
              ELSE <<>>)
                \o SentenceSearch(whole, sentences, k + 1)

\* The list exclusions at the return statement.
ExclusionsFound(doc) ==
    LET found == ScanLines(doc, 1, FALSE, <<>>)
    IN  IF found = <<>>
        THEN SentenceSearch(JoinLines(doc), SplitSentences(JoinLines(doc)), 1)
        ELSE found

\* [:10]
MaxExclusions == 10

\* The entries of a list with how often each is in it.
EntriesKept(found) ==
    [e \in {found[k] : k \in DOMAIN found} |->
        Cardinality({k \in DOMAIN found : found[k] = e})]

\* set(exclusions): each entry once.
UniqueEntries(found) ==
    [e \in {found[k] : k \in DOMAIN found} |-> 1]

\* list(...)[:10] of a set has any ten of its entries: the lists it may be,
\* each as the bag of its entries.
FirstEntries(entries) ==
    IF BagCardinality(entries) <= MaxExclusions THEN {entries}
    ELSE {kept \in SubBag(entries) : BagCardinality(kept) = MaxExclusions}

InitExclusions ==
    /\ document \in ExclusionTexts
    /\ exclusions = <<>>

\* The processor when only the other components run.
InitExclusionsIdle ==
    /\ document = <<>>
    /\ exclusions = <<>>

\* extract_exclusions(text)
ExtractExclusions ==
    /\ exclusions = <<>>
    /\ \E returned \in FirstEntries(UniqueEntries(ExclusionsFound(document))) :
          exclusions' = <<returned>>
    /\ UNCHANGED document
    /\ UNCHANGED <<coreVars, apiVars, vsVars, chatVars, valVars, tsVars, lcVars>>

NextExclusions == ExtractExclusions

(***************************************************************************)
(*          LayoutClassifier (policy-engine/layout_classifier.py)          *)
(***************************************************************************)

\* The most lines of a text.
MaxOcrLines == 3

\* The policy types, in the order of the dict scores.
PolicyTypes == <<"health", "life", "motor", "travel">>

\* health_indicators, life_indicators, motor_indicators, travel_indicators
Indicators ==
    [health |-> <<"health insurance", "medical insurance", "hospitalization",
                  "medical expenses", "doctor", "treatment", "medicine">>,
     life |-> <<"life insurance", "life cover", "sum assured", "death benefit",
                "maturity benefit", "nominee">>,
     motor |-> <<"motor insurance", "vehicle insurance", "car insurance",
                 "bike insurance", "automobile", "registration number">>,
     travel |-> <<"travel insurance", "trip insurance", "journey",
                  "passport", "visa", "baggage", "flight">>]

\* self.section_patterns: for each policy type its section types with their
\* keywords, in the order of the dict.
SectionPatterns ==
    [health |->
        <<<<"coverage", <<"coverage", "what is covered", "benefits", "inclusions",
                          "medical expenses", "hospitalization", "treatment">>>>,
          <<"exclusions", <<"exclusions", "what is not covered", "not covered",
                            "limitations", "restrictions">>>>,
          <<"terms_conditions", <<"terms and conditions", "terms & conditions",
                                  "policy terms", "conditions", "provisions">>>>,
          <<"waiting_periods", <<"waiting period", "waiting periods",
                                 "initial waiting", "pre-existing waiting">>>>,
          <<"premium", <<"premium", "premium details", "payment", "premium payment">>>>,
          <<"claims", <<"claim procedure", "how to claim", "claims process",
                        "claim settlement">>>>>>,
     life |->
        <<<<"coverage", <<"coverage", "sum assured", "death benefit",
                          "maturity benefit", "survival benefit">>>>,
          <<"exclusions", <<"exclusions", "what is not covered", "not covered",
                            "suicide clause", "risk exclusions">>>>,
          <<"terms_conditions", <<"terms and conditions", "policy provisions",
                                  "policy terms">>>>,
          <<"premium", <<"premium", "premium payment", "payment frequency",
                         "premium table">>>>,
          <<"benefits", <<"benefits", "policy benefits", "additional benefits",
                          "rider benefits">>>>,
          <<"nomination", <<"nomination", "nominee", "assignment", "beneficiary">>>>>>,
     motor |->
        <<<<"coverage", <<"coverage", "what is covered", "comprehensive coverage",
                          "third party", "own damage">>>>,
          <<"exclusions", <<"exclusions", "what is not covered", "not covered",
                            "limitations", "exceptions">>>>,
          <<"terms_conditions", <<"terms and conditions", "policy terms", "conditions">>>>,
          <<"idv", <<"idv", "insured declared value", "vehicle value", "depreciation">>>>,
          <<"claims", <<"claim procedure", "how to claim", "claims process",
                        "survey", "assessment">>>>,
          <<"add_on_covers", <<"add-on covers", "additional covers", "riders",
                               "zero depreciation", "engine protection">>>>>>,
     travel |->
        <<<<"coverage", <<"coverage", "what is covered", "medical coverage",
                          "trip cancellation", "baggage">>>>,
          <<"exclusions", <<"exclusions", "what is not covered", "not covered",
                            "limitations", "restrictions">>>>,
          <<"terms_conditions", <<"terms and conditions", "policy terms", "conditions">>>>,
          <<"geographical_scope", <<"geographical scope", "coverage area",
                                    "countries covered", "worldwide", "schengen">>>>,
          <<"emergency_assistance", <<"emergency assistance", "medical emergency",
                                      "evacuation", "repatriation">>>>,
          <<"claims", <<"claim procedure", "how to claim", "claims process",
                        "documentation required">>>>>>]

\* self.common_sections
CommonSections ==
    <<<<"definitions", <<"definitions", "meaning of terms", "glossary">>>>,
      <<"contact", <<"contact us", "customer care", "helpline", "support">>>>,
      <<"grievance", <<"grievance", "complaints", "dispute resolution">>>>,
      <<"renewal", <<"renewal", "renewal terms", "renewal conditions">>>>>>

\* The lines of the texts.
OcrLines ==
    {"Health Insurance Policy", "Car insurance and vehicle insurance",
     "Life cover", "Flight, baggage and passport",
     "EXCLUSIONS AND LIMITATIONS", "1. Insured Declared Value (IDV)",
     "nominee and sum assured: see the definitions",
     "the premium is payable every year and the coverage continues while it is paid",
     "ab"}

\* The texts of ocr_result, as text.split('\n') has them.
OcrTexts == UNION {[1..n -> OcrLines] : n \in 0..MaxOcrLines}

SeqRange(s) == {s[k] : k \in DOMAIN s}

\* Every indicator and keyword of the classifier.
Phrases ==
    UNION {SeqRange(Indicators[t]) : t \in SeqRange(PolicyTypes)}
    \cup UNION {SeqRange(SectionPatterns[t][k][2]) :
                   t \in SeqRange(PolicyTypes), k \in 1..6}
    \cup UNION {SeqRange(CommonSections[k][2]) : k \in DOMAIN CommonSections}

\* The phrases in line.lower().strip(); none of them spans two lines, so
\* these are also the phrases that text.lower() has from the line.
PhrasesIn ==
    [line \in OcrLines |-> {phrase \in Phrases : Contains(Strip(Lower(line)), phrase)}]

UpperChars == {SubSeq(UpperCase, k, k) : k \in 1..Len(UpperCase)}
LowerChars == {SubSeq(LowerCase, k, k) : k \in 1..Len(LowerCase)}
DigitChars == {"0", "1", "2", "3", "4", "5", "6", "7", "8", "9"}

\* The first position from p on where s has no character of chars.
RECURSIVE RunEnd(_, _, _)
RunEnd(s, p, chars) ==
    IF p <= Len(s) /\ SubSeq(s, p, p) \in chars THEN RunEnd(s, p + 1, chars) ELSE p

\* s has a character of chars at position p.
HasAt(s, p, chars) == p <= Len(s) /\ SubSeq(s, p, p) \in chars

\* len(line) of the short lines that could be headers
MinHeaderLength == 3
MaxHeaderLength == 50

\* _is_likely_header(line)
IsLikelyHeader(raw) ==
    LET line == Strip(raw)
        digits == RunEnd(line, 1, DigitChars)
        after_digits == RunEnd(line, digits, Whitespace)
        first_word == RunEnd(line, 2, LowerChars)
        second_word == RunEnd(line, first_word, Whitespace)
        after_bullet == RunEnd(line, 2, Whitespace)
    IN  \/ /\ \E p \in 1..Len(line) : HasAt(line, p, UpperChars)
           /\ ~\E p \in 1..Len(line) : HasAt(line, p, LowerChars)
           /\ Len(line) > MinHeaderLength
        \/ /\ digits > 1
           /\ after_digits > digits \/ HasAt(line, digits, {".", "-", ")"})
        \/ /\ HasAt(line, 1, UpperChars)
           /\ first_word > 2
           /\ HasAt(line, second_word, UpperChars)
           /\ HasAt(line, second_word + 1, LowerChars)
        \/ /\ HasAt(line, 1, {"-", "*"})
           /\ HasAt(line, after_bullet, UpperChars)
        \/ /\ MinHeaderLength <= Len(line) /\ Len(line) <= MaxHeaderLength
           /\ \E p \in 1..Len(line) : HasAt(line, p, UpperChars \cup LowerChars)

\* What the classifier tests of each line.
HeaderLines == {line \in OcrLines : IsLikelyHeader(line)}
StrippedLine == [line \in OcrLines |-> Strip(line)]

\* sum(1 for indicator in indicators if indicator in text_lower)
ScoreOf(doc, type) ==
    Cardinality({k \in DOMAIN Indicators[type] :
                    \E n \in DOMAIN doc : Indicators[type][k] \in PhrasesIn[doc[n]]})

\* max(scores, key=scores.get) with the last of the highest
LastHighest(scores) ==
    LET best == {k \in DOMAIN PolicyTypes :
                    \A j \in DOMAIN PolicyTypes : scores[j] <= scores[k]}
    IN  PolicyTypes[CHOOSE k \in best : \A j \in best : j <= k]

\* max(scores, key=scores.get): the first key of the dict with the highest
\* score.
Highest(scores) ==
    LET best == {k \in DOMAIN PolicyTypes :
                    \A j \in DOMAIN PolicyTypes : scores[j] <= scores[k]}
    IN  PolicyTypes[CHOOSE k \in best : \A j \in best : k <= j]

\* _detect_policy_type(text)
DetectPolicyType(doc) ==
    LET scores == [k \in DOMAIN PolicyTypes |-> ScoreOf(doc, PolicyTypes[k])]
        highest == Highest(scores)
    IN  IF ScoreOf(doc, highest) = 0 THEN "health" ELSE highest

\* match_score of a line, doubled: one for each keyword in the line and a
\* half for a likely header.
MatchScore(line, keywords) ==
    2 * Cardinality({k \in DOMAIN keywords : keywords[k] \in PhrasesIn[line]})
        + (IF line \in HeaderLines THEN 1 ELSE 0)

\* The loop of _find_section from line i (from 0) on: best_match_line.
RECURSIVE BestMatchLine(_, _, _, _, _)
BestMatchLine(doc, keywords, i, best_match_score, best_match_line) ==
    IF i >= Len(doc) THEN <<best_match_score, best_match_line>>
    ELSE LET match_score == MatchScore(doc[i + 1], keywords)
         IN  IF match_score > best_match_score /\ match_score >= 2
             THEN BestMatchLine(doc, keywords, i + 1, match_score, i)
             ELSE BestMatchLine(doc, keywords, i + 1, best_match_score, best_match_line)

\* The most lines _extract_section_content looks at, the header among them,
\* and the length a line of content has to exceed.
ContentWindow == 20
MinContentLine == 10

\* _extract_section_content(lines, start_line): the lines it joins.
RECURSIVE SectionContent(_, _, _)
SectionContent(doc, i, stop) ==
    IF i >= stop THEN <<>>
    ELSE LET line == StrippedLine[doc[i + 1]]
         IN  IF doc[i + 1] \in HeaderLines /\ Len(line) < MaxHeaderLength THEN <<>>
             ELSE (IF Len(line) > MinContentLine THEN <<line>> ELSE <<>>)
                     \o SectionContent(doc, i + 1, stop)

\* _find_section(lines, section_type, keywords): <<section_info>>, or <<>>
\* for None.  The confidence min(best_match_score / len(keywords), 1.0) is
\* kept as the fraction's two terms.
FindSection(doc, section_type, keywords) ==
    LET best == BestMatchLine(doc, keywords, 0, 0, -1)
    IN  IF best[2] >= 0
        THEN <<[type |-> section_type,
                title |-> StrippedLine[doc[best[2] + 1]],
                start_line |-> best[2],
                confidence |-> IF best[1] >= 2 * Len(keywords) THEN <<1, 1>>
                               ELSE <<best[1], 2 * Len(keywords)>>,
                content |-> SectionContent(doc, best[2] + 1,
                                           Min(Len(doc), best[2] + ContentWindow))]>>
        ELSE <<>>

\* _analyze_text_structure and _find_common_sections: the sections of the
\* patterns from the k-th on.
RECURSIVE FindSections(_, _, _)
FindSections(doc, patterns, k) ==
    IF k > Len(patterns) THEN <<>>
    ELSE FindSection(doc, patterns[k][1], patterns[k][2])
            \o FindSections(doc, patterns, k + 1)

\* sorted(sections, key=lambda x: x.get("start_line", 0)): a stable sort.
RECURSIVE SortedByStartLine(_)
SortedByStartLine(found) ==
    IF found = <<>> THEN <<>>
    ELSE LET first == CHOOSE k \in DOMAIN found :
                         \A j \in DOMAIN found :
                             \/ found[k].start_line < found[j].start_line
                             \/ found[k].start_line = found[j].start_line /\ k <= j
         IN  <<found[first]>>
                \o SortedByStartLine(SubSeq(found, 1, first - 1)
                                        \o SubSeq(found, first + 1, Len(found)))

InitClassifier ==
    /\ ocr_text \in OcrTexts
    /\ policy_type = None
    /\ classified_sections = None

\* The classifier when only the other components run.
InitClassifierIdle ==
    /\ ocr_text = <<>>
    /\ policy_type = None
    /\ classified_sections = None

\* classify_sections(ocr_result)
ClassifySections ==
    /\ classified_sections = None
    /\ policy_type' = DetectPolicyType(ocr_text)
    /\ classified_sections' =
          SortedByStartLine(FindSections(ocr_text, SectionPatterns[policy_type'], 1)
                               \o FindSections(ocr_text, CommonSections, 1))
    /\ UNCHANGED ocr_text
    /\ UNCHANGED <<coreVars, apiVars, vsVars, chatVars, valVars, tsVars, exVars>>

NextClassifier == ClassifySections

(***************************************************************************)
(*                            specifications                               *)
(***************************************************************************)

InitRagIdle == InitSplitIdle /\ InitRag

\* The components of this module that a specification leaves idle.
InitTextIdle == InitSimplifierIdle /\ InitExclusionsIdle /\ InitClassifierIdle

InitAuxIdle == InitChat /\ InitValidation /\ InitTextIdle

InitExtIdle == InitApi /\ InitVectorStore /\ InitAuxIdle

InitCoreIdle == InitClientIdle /\ InitEngineIdle /\ InitRagIdle /\ InitAuxIdle

InitWhatsApp == InitClient /\ InitEngineIdle /\ InitRagIdle /\ InitExtIdle

SpecWhatsApp == InitWhatsApp /\ [][NextWhatsApp]_vars

InitTemplates ==
    (InitClient \/ InitClientBusy) /\ InitEngineIdle /\ InitRagIdle /\ InitExtIdle

SpecTemplates == InitTemplates /\ [][NextTemplates]_vars

InitPolicyEngine == InitClientIdle /\ InitEngine /\ InitRagIdle /\ InitExtIdle

SpecEngine == InitPolicyEngine /\ [][NextEngine]_vars

\* Fairness: Starlette runs every scheduled background task, and an upload
\* that was read is written and answered.
SpecEngineFair ==
    /\ SpecEngine
    /\ \A i \in 1..MaxUploads : WF_vars(UploadEnd(i)) /\ WF_vars(ProcessPolicyAsync(i))

InitChunk == InitClientIdle /\ InitEngineIdle /\ InitSplit /\ InitRag /\ InitExtIdle

SpecChunk == InitChunk /\ [][NextSplit]_vars

\* Fairness: the interpreter keeps executing the loop.
SpecChunkFair == SpecChunk /\ WF_vars(SplitWhile) /\ WF_vars(SplitBody)

InitPolicyRag == InitClientIdle /\ InitEngineIdle /\ InitRagIdle /\ InitExtIdle

SpecRag == InitPolicyRag /\ [][NextRag]_vars

InitEndpoints == InitCoreIdle /\ InitApi /\ InitVectorStore

SpecApi == InitEndpoints /\ [][NextApi]_vars

InitStore == InitCoreIdle /\ InitApi /\ InitVectorStore

SpecVectorStore == InitStore /\ [][NextVectorStore]_vars

InitSearch == InitCoreIdle /\ InitApi /\ InitVectorStore

SpecSearch == InitSearch /\ [][NextSearch]_vars

InitServicesIdle ==
    InitClientIdle /\ InitEngineIdle /\ InitRagIdle /\ InitApi /\ InitVectorStore

InitConversation == InitServicesIdle /\ InitChat /\ InitValidation /\ InitTextIdle

SpecChat == InitConversation /\ [][NextChat]_vars

InitRunAll == InitServicesIdle /\ InitChat /\ InitValidation /\ InitTextIdle

SpecValidation == InitRunAll /\ [][NextValidation]_vars

InitSimplify ==
    /\ InitServicesIdle /\ InitChat /\ InitValidation
    /\ InitSimplifier /\ InitExclusionsIdle /\ InitClassifierIdle

SpecSimplifier == InitSimplify /\ [][NextSimplifier]_vars

InitExtract ==
    /\ InitServicesIdle /\ InitChat /\ InitValidation
    /\ InitSimplifierIdle /\ InitExclusions /\ InitClassifierIdle

SpecExclusions == InitExtract /\ [][NextExclusions]_vars

InitClassify ==
    /\ InitServicesIdle /\ InitChat /\ InitValidation
    /\ InitSimplifierIdle /\ InitExclusionsIdle /\ InitClassifier

SpecClassifier == InitClassify /\ [][NextClassifier]_vars

(***************************************************************************)
(*                               the claims                                *)
(***************************************************************************)

\* A step in which sender s calls send_text or send_voice and runs it up to
\* its first return or await.
BeginStep(s) ==
    \/ \E m \in {SimplifiedText, None} : SendTextBegin(s, PhoneText, m)
    \/ \E f \in {AudioFile, MissingAudioFile} : SendVoiceBegin(s, PhoneVoice, f)

ReturnsFalse(s) ==
    /\ sends'[s].pc = "returned"
    /\ sends'[s].value = FALSE
    /\ BeginStep(s)

ReturnsTrue(s) ==
    /\ sends[s].pc = "sleep"
    /\ sends'[s].pc = "returned"
    /\ sends'[s].value = TRUE

\* The history of the recipient of s's send got one more record at its end,
\* the records before it being the old history, or its last 99 records when
\* it already held 100.
OneRecordAppended(s) ==
    LET p == sends[s].phone_number
        old == HistoryOf(message_history, p)
        new == HistoryOf(message_history', p)
        kept == Len(new) - 1
    IN  /\ Len(new) = Min(Len(old) + 1, HistoryKeep)
        /\ new[Len(new)].phone_number = p
        /\ new[Len(new)].message_type = sends[s].kind
        /\ new[Len(new)].status = "sent"
        /\ SubSeq(new, 1, kept) = SubSeq(old, Len(old) - kept + 1, Len(old))
        /\ \A q \in (DOMAIN message_history \cup DOMAIN message_history') \ {p} :
                HistoryOf(message_history', q) = HistoryOf(message_history, q)

\* C1: on one day messages_sent_today never exceeds the rate limit of 950,
\* also with several sends in flight.
DailyLimitRespected == messages_sent_today <= rate_limit

\* C2 as stated: a send that returns False has changed neither the history
\* nor messages_sent_today; a send that returns True has appended exactly one
\* record to the recipient's history and raised messages_sent_today by 1.
SendFalseChangesNothing ==
    [][\A s \in Senders :
        /\ ReturnsFalse(s) =>
                /\ message_history' = message_history
                /\ messages_sent_today' = messages_sent_today
        /\ ReturnsTrue(s) =>
                /\ OneRecordAppended(s)
                /\ messages_sent_today' = messages_sent_today + 1]_vars

\* C2 as amended: a send that returns False has not changed the history and
\* has left messages_sent_today as it was, except that a check made on a new
\* date has reset it to 0; the step in which a send returns True appends
\* exactly one record to the recipient's history (kept to its last 100) and
\* raises messages_sent_today by exactly 1.
SendFalseOnlyResets ==
    [][\A s \in Senders :
        /\ ReturnsFalse(s) =>
                /\ message_history' = message_history
                /\ messages_sent_today' =
                        IF today # last_reset_date THEN 0 ELSE messages_sent_today
        /\ ReturnsTrue(s) =>
                /\ OneRecordAppended(s)
                /\ messages_sent_today' = messages_sent_today + 1]_vars

\* C2's case: a send returned True (the text history grew to 100 records),
\* and on the next day a send returned False for a missing file or an error,
\* its check having reset the counter.
SendFalseAfterReset ==
    \E s1, s2 \in Senders :
        /\ sends[s1] = Returned(TRUE, "sent")
        /\ sends[s2] = Returned(FALSE, "failed")
        /\ Len(HistoryOf(message_history, PhoneText)) = HistoryKeep
        /\ today = 2 /\ last_reset_date = 2 /\ messages_sent_today = 0

\* C3: a rate-limit check made on a date other than last_reset_date sets the
\* counter to 0 and last_reset_date to the current date before the limit is
\* evaluated, so the send is not refused for the limit; and a step that keeps
\* last_reset_date never decreases the counter.
RateLimitResetsDaily ==
    [][/\ \A s \in Senders :
            (today # last_reset_date /\ BeginStep(s)) =>
                /\ last_reset_date' = today
                /\ messages_sent_today' = 0
                /\ sends'[s] # Returned(FALSE, "limit")
       /\ (last_reset_date' = last_reset_date) =>
                messages_sent_today' >= messages_sent_today]_vars

\* C3's case: a send was refused for the limit on day 1, and on day 2 the
\* check has reset the counter and another send was accepted.
AcceptsAgainNextDay ==
    \E s1, s2 \in Senders :
        /\ sends[s1] = Returned(FALSE, "limit")
        /\ sends[s2].pc = "sleep"
        /\ today = 2 /\ last_reset_date = 2
        /\ messages_sent_today < rate_limit

\* C4 (its second half): while an accepted upload's background processing has
\* not finished, there is no status record under its policy ID, so
\* GET /policy-status/{policy_id} answers 404.
NoStatusBeforeProcessed ==
    \A i \in DOMAIN tasks :
        tasks[i].state = "pending" => tasks[i].policy_id \notin DOMAIN status_files

\* C4's first half, which holds: every accepted upload is eventually
\* processed, and its processing leaves a status record.
AcceptedEventuallyProcessed ==
    \A i \in 1..MaxUploads :
        (i \in DOMAIN tasks /\ tasks[i].state = "pending")
            ~> (i \in DOMAIN tasks /\ tasks[i].state = "done")

\* C5: any two accepted uploads have different policy IDs.
PolicyIdsUnique ==
    \A i, j \in DOMAIN tasks :
        (i # j /\ tasks[i].state # "uploading" /\ tasks[j].state # "uploading")
            => tasks[i].policy_id # tasks[j].policy_id

\* The file names of FileNames that do not end, case-insensitively, with
\* .pdf, .png, .jpg or .jpeg.
UnsupportedNames == {"notes.txt", "policy.pdf.bak"}

\* C6: an upload of an unsupported file name is answered with 400 and saves
\* no file, creates no status or result record and schedules no task.
RejectedUploadChangesNothing ==
    [][\A f \in UnsupportedNames :
        UploadBegin(f) =>
            /\ response' = [op |-> "upload", filename |-> f, code |-> 400]
            /\ UNCHANGED <<upload_files, status_files, result_files, tasks>>]_vars

\* C6's case: an upload was rejected while another one is stored.
UploadWasRejected ==
    /\ response = [op |-> "upload", filename |-> "policy.pdf.bak", code |-> 400]
    /\ upload_files # <<>>
    /\ \E i \in DOMAIN tasks : tasks[i].state = "pending"


\* C8: _split_text_into_chunks terminates for every text, chunk_size and
\* chunk_overlap: the loop reaches its return.
SplitTerminates == <>(split_pc = "done")

\* The positions (from 1) of t that the occurrences of chunk in t hold.
PositionsOf(chunk, t) ==
    UNION {i..(i + Len(chunk) - 1) :
             i \in {j \in 1..(Len(t) - Len(chunk) + 1) :
                      SubSeq(t, j, j + Len(chunk) - 1) = chunk}}

\* C9: for 0 <= chunk_overlap < chunk_size the returned chunks are at most
\* chunk_size long, each is a contiguous piece of the text, and every
\* character of the text that is not whitespace lies in one of them.
ChunksCoverText ==
    (split_pc = "done" /\ 0 <= chunk_overlap /\ chunk_overlap < chunk_size) =>
        LET returned == {chunks[i] : i \in 1..Len(chunks)}
        IN  /\ \A c \in returned : Len(c) <= chunk_size
            /\ \A c \in returned : PositionsOf(c, text) # {}
            /\ \A p \in 1..Len(text) :
                   SubSeq(text, p, p) \notin Whitespace =>
                       \E c \in returned : p \in PositionsOf(c, text)

\* C7: while the collection holds the chunks of a document that
\* add_policy_document stored under doc_id, delete_policy(doc_id) returns
\* True and removes them all, get_policy_summary(doc_id) finds the policy,
\* and answer_question(policy_id=doc_id), when the query does not raise,
\* retrieves chunks of that document.
AddedDocumentAddressable ==
    [][\A d \in DocIds :
         ChunksOfDocument(d) # {} =>
            /\ RagDeletePolicy(d) =>
                  (rag_result'.value = TRUE /\ ChunksOfDocument(d)' = {})
            /\ GetPolicySummary(d) =>
                  "error" \notin DOMAIN rag_result'.value
            /\ \A q \in Questions, k \in TopKs, th \in Thresholds :
                  \A ctxs \in RetrievableContexts(d, k) \cup {<<>>} :
                     \A qa \in [1..Len(ctxs) -> QAOutcomes] :
                        AnswerQuestion(q, d, k, th, FALSE, ctxs, qa) =>
                           /\ ctxs # <<>>
                           /\ \A i \in 1..Len(ctxs) : ctxs[i] \in ChunksOfDocument(d)]_vars

\* C10: answer_question does not raise.  With no retrieved context it
\* returns confidence 0.0 and source 'None'; with contexts, a string question
\* and no pipeline answer that reaches confidence_threshold it returns
\* confidence 0.2 and source 'Fallback'; with contexts and a question that
\* makes it fail it returns confidence 0.0 and source 'Error'; and under the
\* default threshold an answer whose source is a chunk's metadata has a
\* confidence of at least 0.3.
AnswerQuestionRecords ==
    rag_result.op = "answer_question" =>
        LET v == rag_result.value
            th == rag_result.confidence_threshold
            qa == rag_result.qa_results
            reached == \E i \in DOMAIN qa : ~qa[i].raised /\ qa[i].score >= th
        IN  /\ rag_result.raised = FALSE
            /\ rag_result.retrieved = 0 =>
                  (v.confidence = 0 /\ v.source = Literal("None"))
            /\ (rag_result.retrieved > 0 /\ rag_result.question # None /\ ~reached) =>
                  (v.confidence = FallbackConfidence /\ v.source = Literal("Fallback"))
            /\ (rag_result.retrieved > 0 /\ rag_result.question = None) =>
                  (v.confidence = 0 /\ v.source = Literal("Error"))
            /\ (th = DefaultThreshold /\ "metadata" \in DOMAIN v.source) =>
                  v.confidence >= DefaultThreshold

\* Under the default threshold, of two contexts one scored below 0.3 and the
\* other 0.3, and the answer is the second's.
AnsweredAtThreshold ==
    /\ rag_result.op = "answer_question"
    /\ rag_result.confidence_threshold = DefaultThreshold
    /\ rag_result.retrieved = 2
    /\ \E i \in DOMAIN rag_result.qa_results :
          ~rag_result.qa_results[i].raised /\ rag_result.qa_results[i].score = 29
    /\ "metadata" \in DOMAIN rag_result.value.source
    /\ rag_result.value.confidence = DefaultThreshold

\* C11: when no data exists for the ID, GET /confidence, GET /feedback and
\* GET /quality answer 404; when the audio cannot be transcribed, POST
\* /voice-query answers 400.
MissingRecordIs404 ==
    /\ (api_response.endpoint \in {"GET /confidence", "GET /feedback", "GET /quality"}
          /\ api_response.lookup = "nothing") => api_response.status_code = 404
    /\ (api_response.endpoint = "POST /voice-query"
          /\ api_response.lookup = "nothing") => api_response.status_code = 400

\* C12: after delete_policy(p) returned True the store holds no embedding
\* list, no index entry and no chunk of p, search_similar and
\* get_policy_chunks return nothing for p, and the embeddings, index entries
\* and chunks of every other policy are as before.
DeleteRemovesPolicy ==
    [][\A p \in VsPolicies :
         (VsDeletePolicy(p) /\ vs_result'.value = TRUE) =>
            /\ p \notin DictKeys(vs_embeddings')
            /\ p \notin DOMAIN vs_index'
            /\ \A id \in DOMAIN vs_chunks' : vs_chunks'[id].policy_id # p
            /\ \A q \in Queries, k \in 0..MaxTopK : SimilarResults(q, p, k)' = <<>>
            /\ \A sec \in {None, "coverage"} : PolicyChunks(p, sec)' = {}
            /\ \A o \in VsPolicies \ {p} :
                  /\ (o \in DictKeys(vs_embeddings)) = (o \in DictKeys(vs_embeddings'))
                  /\ o \in DictKeys(vs_embeddings) =>
                        DictGet(vs_embeddings, o) = DictGet(vs_embeddings', o)
                  /\ (o \in DOMAIN vs_index) = (o \in DOMAIN vs_index')
                  /\ o \in DOMAIN vs_index => vs_index[o] = vs_index'[o]
                  /\ PolicyChunksOf(vs_chunks, o) = PolicyChunksOf(vs_chunks', o)]_vars

\* delete_policy removed the chunks of a policy, one of them a chunk that the
\* policy's last create_embeddings did not write, and the other policy is in
\* the store.
DeletedOneOfTwo ==
    /\ vs_result.op = "delete_policy"
    /\ vs_result.value = TRUE
    /\ vs_result.chunks_removed = 2
    /\ \E o \in VsPolicies \ {vs_result.policy_id} :
          /\ o \in DictKeys(vs_embeddings)
          /\ PolicyChunksOf(vs_chunks, o) # <<>>

\* C13: load_from_disk(p) of a policy whose three files create_embeddings
\* saved returns True and leaves the store with the saved embeddings, chunks
\* and index of p.
LoadRestoresSaved ==
    [][\A p \in VsPolicies :
         (LoadFromDisk(p) /\ FilesOf(p) \subseteq DOMAIN vs_disk) =>
            /\ vs_result'.value = TRUE
            /\ p \in DictKeys(vs_embeddings')
            /\ DictGet(vs_embeddings', p) = JsonLoad(vs_disk[EmbeddingsFile(p)])
            /\ PolicyChunksOf(vs_chunks', p) = JsonLoad(vs_disk[ChunksFile(p)])
            /\ p \in DOMAIN vs_index'
            /\ vs_index'[p] = JsonLoad(vs_disk[IndexFile(p)])]_vars

\* The embeddings search_similar(query, policy_id, ..) compares the query
\* with.
SearchedEmbeddings(policy_id) ==
    UNION {{DictGet(vs_embeddings, o)[i] : i \in DOMAIN DictGet(vs_embeddings, o)} :
             o \in {k \in DictKeys(vs_embeddings) :
                      policy_id \in {None, ""} \/ k = policy_id}}

\* C14: search_similar with top_k >= 0 returns at most top_k results, in
\* order of non-increasing similarity_score, each above 0.3; no embedded
\* chunk that is left out is more similar than a returned one; with a
\* policy_id every result is of that policy, and for a policy_id that is not
\* in the store there is no result.
SearchResultsRanked ==
    vs_result.op = "search_similar" =>
        LET r == vs_result.value
            given == vs_result.policy_id \notin {None, ""}
            returned == {r[i].chunk_id : i \in 1..Len(r)}
        IN  /\ Len(r) <= vs_result.top_k
            /\ \A i \in 1..(Len(r) - 1) : r[i].similarity_score >= r[i + 1].similarity_score
            /\ \A i \in 1..Len(r) : r[i].similarity_score > SimilarityThreshold
            /\ \A e \in SearchedEmbeddings(vs_result.policy_id) :
                  e.chunk_id \notin returned =>
                     \A i \in 1..Len(r) :
                        CosineSimilarity(GenerateEmbedding(vs_result.query), e.embedding)
                           <= r[i].similarity_score
            /\ given => \A i \in 1..Len(r) : r[i].policy_id = vs_result.policy_id
            /\ (given /\ vs_result.policy_id \notin DictKeys(vs_embeddings)) => r = <<>>

\* A search over all policies returned top_k = 2 results and left out a
\* chunk that is above the threshold.
SearchCutAtTopK ==
    /\ vs_result.op = "search_similar"
    /\ vs_result.policy_id = None
    /\ vs_result.top_k = 2
    /\ Len(vs_result.value) = 2
    /\ \E e \in SearchedEmbeddings(None) :
          /\ e.chunk_id \notin {vs_result.value[i].chunk_id : i \in 1..2}
          /\ CosineSimilarity(GenerateEmbedding(vs_result.query), e.embedding)
                > SimilarityThreshold

\* C15: after chat has handled a goodbye the user's history holds no
\* message from before it, only the goodbye and its answer at most, and the
\* next chat of a user whose conversation a goodbye ended starts a new one,
\* with message_count 2.
GoodbyeClearsHistory ==
    [][\A u \in ChatUsers, m \in ChatMessages, p \in {None, "P1"}, s \in RagSources :
         (Chat(u, m, p, s) /\ chat_response'.value.source # "Error") =>
            /\ chat_response'.value.source = "Goodbye" =>
                  (u \in DOMAIN conversation_history' =>
                     Len(conversation_history'[u].messages) <= 2)
            /\ (u \in DOMAIN conversation_history /\ conversation_history[u].ended) =>
                  chat_response'.value.message_count = 2]_vars

ReportPassedOnlyIfClean ==
    LET tests == perf_results.tests
        summary == perf_results.summary
    IN  summary # <<>> =>
           /\ summary.overall_status = "PASSED" =>
                 /\ \A r \in CountedResults(tests) :
                       ~CountsAsFailedOrError(StatusOf(tests, r))
                 /\ \A c \in DOMAIN tests :
                       "overall_status" \in DOMAIN tests[c] =>
                          tests[c].overall_status # Scalar("FAILED")
           /\ summary.total_tests = summary.passed_tests + summary.failed_tests
           /\ summary.total_tests = Cardinality(CountedResults(tests))

\* C18: a DELETE that answers 'Policy deleted successfully' leaves no status
\* and no result record of the policy, so both GETs answer 404; the
\* background task of a policy whose upload a DELETE removed writes neither;
\* and a DELETE that answers 404 changes no file.
DeletedStaysDeleted ==
    [][/\ \A p \in KnownIds :
            DeletePolicy(p) =>
               IF response'.code = 200
               THEN p \notin DOMAIN status_files' /\ p \notin DOMAIN result_files'
               ELSE UNCHANGED <<upload_files, status_files, result_files>>
       /\ \A i \in DOMAIN tasks :
            (ProcessPolicyAsync(i) /\ UploadGone(i)) =>
               /\ tasks[i].policy_id \notin DOMAIN status_files'
               /\ tasks[i].policy_id \notin DOMAIN result_files']_vars

\* C19: a policy whose status record says 'completed' has a result record,
\* and no policy has a status record that is not its one 'completed' or
\* 'failed' record.
CompletedHasResult ==
    \A p \in DOMAIN status_files :
       /\ status_files[p].status \in {"completed", "failed"}
       /\ status_files[p].status = "completed" => p \in DOMAIN result_files

\* A policy is completed, with its result, while another policy has failed.
CompletedBesideFailed ==
    \E p, q \in DOMAIN status_files :
       /\ status_files[p].status = "completed"
       /\ p \in DOMAIN result_files
       /\ status_files[q].status = "failed"

\* C20: a processing that ends with status 'completed' had every step
\* succeed and stored a result with vector_embeddings true; one in which a
\* step failed ends with status 'failed' and writes no result record.
CompletedMeansEveryStep ==
    [][\A i \in DOMAIN tasks, outcome \in PipelineOutcomes :
         ProcessPolicyWith(i, outcome) =>
            LET p == tasks[i].policy_id
            IN  /\ status_files'[p].status = "completed" =>
                      /\ outcome = "embedded"
                      /\ result_files'[p].vector_embeddings = TRUE
                /\ outcome # "embedded" =>
                      /\ status_files'[p].status = "failed"
                      /\ UNCHANGED result_files]_vars

\* C21: every part that _break_long_sentences made of a long sentence has
\* at most max_words words, and the sentences it passed through unchanged
\* are the sentences of at most max_words words, in their order.
PartsWithinMaxWords ==
    simplified_sentences # None =>
        LET max_words == MaxWordsOf(target_grade)
            short == SelectSeq(SplitIntoSentences(simplifier_text),
                               LAMBDA words : Len(words) <= max_words)
            passed == SelectSeq(simplified_sentences, LAMBDA e : ~e.broken)
        IN  /\ \A k \in DOMAIN simplified_sentences :
                  simplified_sentences[k].broken =>
                     Len(simplified_sentences[k].words) <= max_words
            /\ passed = [k \in DOMAIN short |-> [words |-> short[k], broken |-> FALSE]]

\* The k-th line of the document is inside an exclusion section: a line
\* before it enters the section and no line between the two leaves it.
InsideSection(k) ==
    \E j \in 1..(k - 1) :
        /\ LineFacts[document[j]].enters
        /\ \A m \in (j + 1)..(k - 1) :
              LineFacts[document[m]].enters \/ ~LineFacts[document[m]].leaves

\* The k-th line qualifies: it is inside a section, is no line that enters or
\* leaves one, is longer than 10 characters and holds an exclusion pattern.
LineQualifies(k) ==
    /\ InsideSection(k)
    /\ ~LineFacts[document[k]].enters
    /\ ~LineFacts[document[k]].leaves
    /\ Len(Strip(document[k])) > 10
    /\ LineFacts[document[k]].pattern

\* C22: extract_exclusions returns at most 10 entries, none of them twice,
\* and when a line of the text qualifies every entry is a qualifying line
\* (stripped): the sentences of the whole-document search are not among
\* them.
ExclusionsFromSection ==
    exclusions # <<>> =>
        /\ BagCardinality(exclusions[1]) <= 10
        /\ \A e \in DOMAIN exclusions[1] : exclusions[1][e] = 1
        /\ (\E k \in DOMAIN document : LineQualifies(k)) =>
              \A e \in DOMAIN exclusions[1] :
                  \E k \in DOMAIN document :
                      LineQualifies(k) /\ e = Strip(document[k])

\* A text with a qualifying line in its exclusion section, a line that
\* leaves the section and after it a sentence that the whole-document search
\* would find; the qualifying line was returned alone.
ExclusionsFromSectionSeen ==
    /\ exclusions # <<>>
    /\ \E k \in DOMAIN document :
          /\ LineQualifies(k)
          /\ exclusions[1] = SetToBag({Strip(document[k])})
          /\ \E m \in (k + 1)..Len(document) :
                /\ LineFacts[document[m]].leaves
                /\ \E n \in (m + 1)..Len(document) :
                      /\ ~InsideSection(n)
                      /\ SentenceSearch(document[n], <<document[n]>>, 1) # <<>>

\* The section types of a list of patterns that have a keyword in a line
\* of the text.
SectionTypesIn(patterns) ==
    {patterns[k][1] : k \in {j \in DOMAIN patterns :
        \E n \in DOMAIN ocr_text, w \in DOMAIN patterns[j][2] :
            patterns[j][2][w] \in PhrasesIn[ocr_text[n]]}}

\* C23: the detected policy type has the highest number of matched
\* indicators and is the first such type in the order health, life, motor,
\* travel ('health' when nothing matched); the returned sections are those
\* of that type's patterns and the common ones, at most one per section
\* type, in the order of start_line.
DetectedTypeAndSections ==
    classified_sections # None =>
        /\ \E k \in DOMAIN PolicyTypes :
              /\ policy_type = PolicyTypes[k]
              /\ \A j \in DOMAIN PolicyTypes :
                    ScoreOf(ocr_text, PolicyTypes[j]) <= ScoreOf(ocr_text, policy_type)
              /\ \A j \in 1..(k - 1) :
                    ScoreOf(ocr_text, PolicyTypes[j]) < ScoreOf(ocr_text, policy_type)
        /\ (\A j \in DOMAIN PolicyTypes : ScoreOf(ocr_text, PolicyTypes[j]) = 0)
              => policy_type = "health"
        /\ {classified_sections[i].type : i \in DOMAIN classified_sections}
              = SectionTypesIn(SectionPatterns[policy_type])
                   \cup SectionTypesIn(CommonSections)
        /\ \A i, j \in DOMAIN classified_sections :
              i < j =>
                 /\ classified_sections[i].type # classified_sections[j].type
                 /\ classified_sections[i].start_line <= classified_sections[j].start_line

\* A text in which life and motor tie for the highest score was classified
\* as life, with the nomination section that only life's patterns have and
\* a section after it.
DetectedTypeAndSectionsSeen ==
    /\ classified_sections # None
    /\ policy_type = "life"
    /\ ScoreOf(ocr_text, "life") = ScoreOf(ocr_text, "motor")
    /\ ScoreOf(ocr_text, "life") > 0
    /\ \E i, j \in DOMAIN classified_sections :
          /\ classified_sections[i].type = "nomination"
          /\ classified_sections[i].start_line < classified_sections[j].start_line

\* The text of a template call: the requested language's, or the English
\* one where the template has no such language.
TemplateText(call) ==
    Templates[call[1]][IF call[2] \in {"en", "hi", "mr"} THEN call[2] ELSE "en"]

\* Coroutine s makes a send_template call in this step.
TemplateCallBy(s) ==
    /\ sends[s].pc # "sleep"
    /\ template_calls'[s] # <<>>
    /\ sends'[s] # sends[s] \/ template_calls'[s] # template_calls[s]

\* The send_template call of coroutine s returns from its await in this step.
TemplateSentBy(s) ==
    /\ sends[s].pc = "sleep"
    /\ sends'[s].pc # "sleep"
    /\ template_calls[s] # <<>>

\* C24: a send_template call with an unknown key returns False and leaves
\* the history and the counter as they are; with a known key it is a
\* send_text of the requested language's text, or of the English text when
\* the template has no such language: it returns False at the daily limit,
\* and else the text is recorded for the number and counted.
TemplateSendsItsText ==
    [][\A s \in Senders :
          /\ TemplateCallBy(s) =>
                IF template_calls'[s][1] \notin {"welcome", "help", "processing"}
                THEN /\ sends'[s] = Returned(FALSE, "failed")
                     /\ message_history' = message_history
                     /\ messages_sent_today' = messages_sent_today
                ELSE IF (IF today # last_reset_date THEN 0 ELSE messages_sent_today) < 950
                     THEN sends'[s] = Sleeping("text", PhoneTemplate,
                                               TemplateText(template_calls'[s]))
                     ELSE /\ sends'[s] = Returned(FALSE, "limit")
                          /\ message_history' = message_history
          /\ TemplateSentBy(s) =>
                /\ sends'[s] = Returned(TRUE, "sent")
                /\ messages_sent_today' = messages_sent_today + 1
                /\ message_history'[PhoneTemplate] =
                      Append(HistoryOf(message_history, PhoneTemplate),
                             MessageRecord(PhoneTemplate, "text",
                                           TemplateText(template_calls[s])))]_vars

\* A call for the help template in a language it does not have returned
\* True, and the last record of the number is the English text; the other
\* coroutine made no call.
EnglishTextSent ==
    \E s \in Senders :
        /\ template_calls[s] = <<"help", "ta">>
        /\ sends[s] = Returned(TRUE, "sent")
        /\ \A other \in Senders \ {s} : template_calls[other] = <<>>
        /\ PhoneTemplate \in DOMAIN message_history
        /\ message_history[PhoneTemplate][Len(message_history[PhoneTemplate])].content
              = RecordedContent(Templates["help"]["en"])

=============================================================================
